---- MODULE Spec2Model ----
EXTENDS Integers, Sequences, FiniteSets, TLC

(***************************************************************************)
(* docker-lb: backend pool, DNS resolver, affinity map and the forwarders. *)
(* Backends are heap objects: a pool's map and list hold references, and a *)
(* connection keeps the reference it selected, also after a DNS update has *)
(* dropped that backend from the pool.                                     *)
(***************************************************************************)

VARIABLES
    backends,        \* BackendPool.backends: pool -> (IP -> Backend reference or Nil)
    backendList,     \* BackendPool.backendList: pool -> sequence of Backend references
    roundRobinIndex, \* BackendPool.roundRobinIndex: pool -> counter
    heap,            \* the Backend objects that are still referenced
    gen,             \* pool -> (IP -> number of Backend objects created for that IP)
    now,             \* the clock read by time.Now()
    conns,           \* the connections / requests being handled
    lastExit,        \* how the handler that returned last ended
    ops,             \* global counter ops
    opened,          \* global counter opened
    rIps,            \* DNSResolver.ips
    rSubscribers,    \* DNSResolver.subscribers
    rMu,             \* DNSResolver.mu: "free", or "Subscribe" while Subscribe holds it
    probe,           \* the goroutine running DNSResolver.start
    subscribing,     \* the goroutine running DNSResolver.Subscribe
    delivered,       \* pool -> <<the last list its OnDNSUpdate got>>, <<>> if none
    entries,         \* AffinityMap.entries: source IP -> AffinityEntry
    nextSweep,       \* the time of the next tick of the cleanup ticker
    lastOp,          \* the last AffinityMap call and what it returned
    hist,            \* source -> its last Set and its last Touch since
    picks,           \* the round-robin selections observed, oldest first
    smain,           \* where smain is: "parse" while it reads its arguments,
                     \* "probe" once the pool is created and its probe
                     \* started, "listen" once the listeners are open
    portStr,         \* argument of the parsePortRange call under way, a string
    parsed,          \* what that call has returned, NotParsed before it has
    args,            \* the mapping smain is setting up: its options and the flags
    setup,           \* what smain has made of it, NotSetUp before it has
    copying,         \* the two copy goroutines of one connection, step by step
    selecting,       \* one call of Select, load by load
    locking          \* the goroutines at the lock of a pool: resolve and a writer

poolVars == <<backends, backendList, roundRobinIndex, heap, gen>>
connVars == <<conns, lastExit, ops, opened>>
resolverVars == <<rIps, rSubscribers, rMu, probe, subscribing, delivered>>
affinityVars == <<entries, nextSweep, lastOp, hist>>
stepVars == <<copying, selecting, locking>>
mainButCopying == <<smain, portStr, parsed, args, setup, selecting, locking>>
mainButSelecting == <<smain, portStr, parsed, args, setup, copying, locking>>
mainButLocking == <<smain, portStr, parsed, args, setup, copying, selecting>>
mainVars == <<smain, portStr, parsed, args, setup, stepVars>>
vars ==
    <<poolVars, now, connVars, resolverVars, affinityVars, picks, mainVars>>

\* ---------------------------------------------------------------- bounds

IPs == {"10.0.0.1", "10.0.0.2", "10.0.0.3"}
ProbedIPs == {"10.0.0.1", "10.0.0.2"}
Pools == {"p1", "p2"}
Sources == {"192.0.2.1", "192.0.2.2"}
ConnIds == {"c1", "c2", "c3"}

MaxTime == 3     \* last clock value
TTL == 4         \* AffinityMap.ttl, in clock ticks
MaxWire == 2     \* most items written on one backend connection
MaxLen == 4      \* longest port expression

DefaultWeight == 1
DefaultTTL == 30  \* seconds, when --affinity-ttl is 0
WeightValues == {3}

Nil == <<>>

Range(s) == {s[i] : i \in DOMAIN s}

SeqsUpTo(S, n) == UNION {[1..k -> S] : k \in 0..n}

\* Every order in which a Go map of the references S can be iterated.
Perms(S) == {s \in [1..Cardinality(S) -> S] : Range(s) = S}

Min(S) == CHOOSE x \in S : \A y \in S : x <= y
Max(S) == CHOOSE x \in S : \A y \in S : x >= y

\* What a lookup can return for a host with two addresses: the lists of at
\* most two of them, repetitions included.
LookupResults == SeqsUpTo(ProbedIPs, Cardinality(ProbedIPs))

\* ------------------------------------------------------- Backend, BackendPool

NewBackend(ip, t) ==
    [IP |-> ip, Weight |-> DefaultWeight, ActiveConns |-> 0, TotalConns |-> 0,
     TotalBytes |-> 0, LastSeen |-> t]

NewBackendPool == [ip \in IPs |-> Nil]

GetBackend(p, ip) == IF ip \in IPs THEN backends[p][ip] ELSE Nil

GetBackends(p) == backendList[p]

checkIp(p, ip) == ip \in IPs /\ backends[p][ip] # Nil

\* OnConnect that counts the connection in TotalConns only.
OnConnect_NoActive(h, b) == [h EXCEPT ![b].TotalConns = @ + 1]

OnConnect(h, b) ==
    [h EXCEPT ![b].ActiveConns = @ + 1, ![b].TotalConns = @ + 1]

OnDisconnect(h, b) == [h EXCEPT ![b].ActiveConns = @ - 1]

AddBytes(h, b, n) == [h EXCEPT ![b].TotalBytes = @ + n]

\* The references the program still holds: the pools' maps and lists, and the
\* backend of every connection in flight. Everything else is garbage.
Referenced(bk, bl, cn) ==
    {bk[p][ip] : p \in Pools, ip \in IPs}
        \cup UNION {Range(bl[p]) : p \in Pools}
        \cup {cn[c].backend : c \in ConnIds}

Collect(h, bk, bl, cn) ==
    [b \in (DOMAIN h) \cap Referenced(bk, bl, cn) |-> h[b]]

\* An update that drops nothing.
LostIPs_Grace(old, S, h, t) == {}

\* The IPs of the map that the update drops.

LostIPs(old, S, h, t) == {ip \in IPs : old[ip] # Nil /\ ip \notin S}

\* dnsProbe drops what this round did not refresh.
LostIPsProbe(old, S, h, t) ==
    {ip \in IPs : old[ip] # Nil /\ h[old[ip]].LastSeen < t}

\* A rebuild on every update.
RebuildNeeded_Always(nNew, nLost) == TRUE

\* A rebuild on additions only.
RebuildNeeded_OnlyNew(nNew, nLost) == nNew # 0

\* changed != 0
RebuildNeeded(nNew, nLost) == nNew + nLost # 0

\* One application of an IP list to pool p at time t, with the removal rule
\* of OnDNSUpdate or, byLastSeen, that of dnsProbe.
ApplyIPs(p, ips, t, byLastSeen) ==
    LET S == Range(ips)
        old == backends[p]
        fresh == {ip \in S : old[ip] = Nil}
        ref(ip) == <<p, ip, gen[p][ip] + 1>>
        added == [ip \in IPs |-> IF ip \in fresh THEN ref(ip) ELSE old[ip]]
        h1 == [b \in DOMAIN heap \cup {ref(ip) : ip \in fresh} |->
                 IF b \in DOMAIN heap
                 THEN IF b[1] = p /\ b[2] \in S /\ old[b[2]] = b
                      THEN [heap[b] EXCEPT !.LastSeen = t]
                      ELSE heap[b]
                 ELSE NewBackend(b[2], t)]
        lost == IF byLastSeen THEN LostIPsProbe(added, S, h1, t)
                ELSE LostIPs(added, S, h1, t)
        kept == [ip \in IPs |-> IF ip \in lost THEN Nil ELSE added[ip]]
        bk == [backends EXCEPT ![p] = kept]
    IN  /\ backends' = bk
        /\ gen' = [gen EXCEPT ![p] = [ip \in IPs |->
                      IF ip \in fresh THEN @[ip] + 1 ELSE @[ip]]]
        /\ IF RebuildNeeded(Cardinality(fresh), Cardinality(lost))
           THEN \E l \in Perms({kept[ip] : ip \in IPs} \ {Nil}) :
                    backendList' = [backendList EXCEPT ![p] = l]
           ELSE UNCHANGED backendList
        /\ heap' = Collect(h1, bk, backendList', conns)

OnDNSUpdate(p, ips) ==
    /\ now < MaxTime
    /\ now' = now + 1
    /\ ApplyIPs(p, ips, now', FALSE)

SetWeights(p, weights) ==
    heap' = [b \in DOMAIN heap |->
               IF b[1] = p /\ b[2] \in DOMAIN weights /\ backends[p][b[2]] = b
               THEN [heap[b] EXCEPT !.Weight = weights[b[2]]]
               ELSE heap[b]]

\* --------------------------------------------------------------- AffinityMap

Miss == [ip |-> "", found |-> FALSE]

\* Get that rejects an entry from the age ttl on.
Get_Strict(e, s, t) ==
    IF s \notin DOMAIN e THEN Miss
    ELSE IF t - e[s].lastUsed >= TTL THEN Miss
    ELSE [ip |-> e[s].backendIP, found |-> TRUE]

\* Get at time t on the entries e.
Get(e, s, t) ==
    IF s \notin DOMAIN e THEN Miss
    ELSE IF t - e[s].lastUsed > TTL THEN Miss
    ELSE [ip |-> e[s].backendIP, found |-> TRUE]

Set(e, s, ip, t) ==
    [x \in DOMAIN e \cup {s} |->
        IF x = s THEN [backendIP |-> ip, lastUsed |-> t] ELSE e[x]]

\* Touch that leaves lastUsed as it is.
Touch_NoRefresh(e, s, t) == e

Touch(e, s, t) ==
    IF s \in DOMAIN e THEN [e EXCEPT ![s].lastUsed = t] ELSE e

\* One pass of the cleanup loop at time t.
Sweep(e, t) == [s \in {x \in DOMAIN e : ~(t - e[x].lastUsed > TTL)} |-> e[s]]

Size(e) == Cardinality(DOMAIN e)

\* A ticker of period ttl.
SweepPeriod_Full == TTL

\* time.NewTicker(am.ttl / 2)
SweepPeriod == TTL \div 2

\* The clock stops here in the runs of the map alone.
AffinityHorizon == TTL + SweepPeriod + 1

Op(op, s, ip, found) == [op |-> op, src |-> s, ip |-> ip, found |-> found]

NoOp == Op("none", "", "", FALSE)

\* The record of a source: the backend and time of its most recent Set, the
\* time of the most recent Touch that found its entry live since then, and the
\* time of the most recent Set or Touch that wrote its entry.
NoHist == [ip |-> "", setAt |-> 0 - 1, touchedAt |-> 0 - 1, usedAt |-> 0 - 1]

HistSet(h, s, ip, t) ==
    [h EXCEPT ![s] = [ip |-> ip, setAt |-> t, touchedAt |-> 0 - 1,
                      usedAt |-> t]]

HistTouch(h, e, s, t) ==
    IF Get(e, s, t).found
    THEN [h EXCEPT ![s].touchedAt = t, ![s].usedAt = t]
    ELSE IF s \in DOMAIN e THEN [h EXCEPT ![s].usedAt = t] ELSE h

\* ----------------------------------------------------------------- selectors

\* A mapping: the options of one listener.
Mapping(pool, mode, algorithm, explicit, affinity, clientEnabled) ==
    [pool |-> pool, mode |-> mode, algorithm |-> algorithm,
     useExplicitWeights |-> explicit, affinity |-> affinity,
     ClientEnabled |-> clientEnabled]

NoMapping == Mapping("p1", "none", "random", FALSE, FALSE, FALSE)

RECURSIVE SumTo(_, _)
SumTo(w, i) == IF i = 0 THEN 0 ELSE w[i] + SumTo(w, i - 1)

\* The linear scan of WeightedRandomSelector for the draw r: the first index
\* at which r - w[1] - ... - w[i] < 0, the last index when there is none.
Scan(w, r) ==
    LET hit == {i \in DOMAIN w : r - SumTo(w, i) < 0}
    IN  IF hit = {} THEN Len(w) ELSE Min(hit)

\* Implicit weights without the + 1: the busiest backend gets weight 0.
Weights_NoPlusOne(l, explicit) ==
    IF explicit THEN [i \in DOMAIN l |-> heap[l[i]].Weight]
    ELSE LET maxConns == Max({0} \cup {heap[l[i]].ActiveConns : i \in DOMAIN l})
         IN  [i \in DOMAIN l |->
                (maxConns - heap[l[i]].ActiveConns) * heap[l[i]].Weight]

\* The weights WeightedRandomSelector computes over the snapshot l.
Weights(l, explicit) ==
    IF explicit THEN [i \in DOMAIN l |-> heap[l[i]].Weight]
    ELSE LET maxConns == Max({0} \cup {heap[l[i]].ActiveConns : i \in DOMAIN l})
         IN  [i \in DOMAIN l |->
                (maxConns - heap[l[i]].ActiveConns + 1) * heap[l[i]].Weight]

\* The algorithms with a least-connection selector that returns the first
\* backend holding the minimum.
Algorithm_FirstMin(m, p, l) ==
    LET n == Len(l) IN
    CASE m.algorithm = "random" -> 1..n
      [] m.algorithm = "round-robin" -> {((roundRobinIndex[p] + 1) % n) + 1}
      [] m.algorithm = "least-connection" ->
            LET minConns == Min({heap[l[i]].ActiveConns : i \in 1..n})
            IN  {Min({i \in 1..n : heap[l[i]].ActiveConns = minConns})}
      [] m.algorithm = "weighted-random" ->
            LET w == Weights(l, m.useExplicitWeights)
                totalWeight == SumTo(w, n)
            IN  IF totalWeight = 0 THEN 1..n
                ELSE {Scan(w, r) : r \in 0..(totalWeight - 1)}

\* The algorithms with the round-robin listener given a random selector.
Algorithm_RandomForRoundRobin(m, p, l) ==
    LET n == Len(l) IN
    CASE m.algorithm \in {"random", "round-robin"} -> 1..n
      [] m.algorithm = "least-connection" ->
            LET minConns == Min({heap[l[i]].ActiveConns : i \in 1..n})
            IN  {i \in 1..n : heap[l[i]].ActiveConns = minConns}
      [] m.algorithm = "weighted-random" ->
            LET w == Weights(l, m.useExplicitWeights)
                totalWeight == SumTo(w, n)
            IN  IF totalWeight = 0 THEN 1..n
                ELSE {Scan(w, r) : r \in 0..(totalWeight - 1)}

\* The indexes (1-based) the algorithm of mapping m can return on the
\* non-empty snapshot l of pool p.
Algorithm(m, p, l) ==
    LET n == Len(l) IN
    CASE m.algorithm = "random" -> 1..n
      [] m.algorithm = "round-robin" -> {((roundRobinIndex[p] + 1) % n) + 1}
      [] m.algorithm = "least-connection" ->
            LET minConns == Min({heap[l[i]].ActiveConns : i \in 1..n})
            IN  {i \in 1..n : heap[l[i]].ActiveConns = minConns}
      [] m.algorithm = "weighted-random" ->
            LET w == Weights(l, m.useExplicitWeights)
                totalWeight == SumTo(w, n)
            IN  IF totalWeight = 0 THEN 1..n
                ELSE {Scan(w, r) : r \in 0..(totalWeight - 1)}

\* A Select that goes to the algorithm without asking the affinity map.
Select_SkipGet(m, p, src) ==
    LET useAff == m.affinity /\ src # ""
        l == GetBackends(p)
        rr == IF m.algorithm = "round-robin" THEN roundRobinIndex[p] + 1
              ELSE roundRobinIndex[p]
    IN  IF Len(l) = 0
        THEN {[backend |-> Nil, rr |-> roundRobinIndex[p], e |-> entries,
               set |-> FALSE]}
        ELSE {[backend |-> l[i], rr |-> rr,
               e |-> IF useAff THEN Set(entries, src, heap[l[i]].IP, now)
                     ELSE entries,
               set |-> useAff] : i \in Algorithm(m, p, l)}

\* A Select that returns the algorithm's choice without recording it.
Select_NoSet(m, p, src) ==
    LET useAff == m.affinity /\ src # ""
        g == IF useAff THEN Get(entries, src, now) ELSE Miss
        l == GetBackends(p)
        rr == IF m.algorithm = "round-robin" THEN roundRobinIndex[p] + 1
              ELSE roundRobinIndex[p]
    IN  IF g.found /\ GetBackend(p, g.ip) # Nil
        THEN {[backend |-> GetBackend(p, g.ip), rr |-> roundRobinIndex[p],
               e |-> entries, set |-> FALSE]}
        ELSE IF Len(l) = 0
        THEN {[backend |-> Nil, rr |-> roundRobinIndex[p], e |-> entries,
               set |-> FALSE]}
        ELSE {[backend |-> l[i], rr |-> rr, e |-> entries, set |-> FALSE] :
                i \in Algorithm(m, p, l)}

\* A round-robin Select that takes its cursor value before it looks at the
\* snapshot.
Select_CursorFirst(m, p, src) ==
    LET useAff == m.affinity /\ src # ""
        g == IF useAff THEN Get(entries, src, now) ELSE Miss
        l == GetBackends(p)
        rr == IF m.algorithm = "round-robin" THEN roundRobinIndex[p] + 1
              ELSE roundRobinIndex[p]
    IN  IF g.found /\ GetBackend(p, g.ip) # Nil
        THEN {[backend |-> GetBackend(p, g.ip), rr |-> roundRobinIndex[p],
               e |-> entries, set |-> FALSE]}
        ELSE IF Len(l) = 0
        THEN {[backend |-> Nil, rr |-> rr, e |-> entries, set |-> FALSE]}
        ELSE {[backend |-> l[i], rr |-> rr,
               e |-> IF useAff THEN Set(entries, src, heap[l[i]].IP, now)
                     ELSE entries,
               set |-> useAff] : i \in Algorithm(m, p, l)}

\* A Select whose round-robin cursor moves on every call that finds backends,
\* also on the calls answered from the affinity map.
Select_AlwaysAdvance(m, p, src) ==
    LET useAff == m.affinity /\ src # ""
        g == IF useAff THEN Get(entries, src, now) ELSE Miss
        l == GetBackends(p)
        rr == IF m.algorithm = "round-robin" THEN roundRobinIndex[p] + 1
              ELSE roundRobinIndex[p]
    IN  IF g.found /\ GetBackend(p, g.ip) # Nil
        THEN {[backend |-> GetBackend(p, g.ip), rr |-> rr,
               e |-> entries, set |-> FALSE]}
        ELSE IF Len(l) = 0
        THEN {[backend |-> Nil, rr |-> roundRobinIndex[p], e |-> entries,
               set |-> FALSE]}
        ELSE {[backend |-> l[i], rr |-> rr,
               e |-> IF useAff THEN Set(entries, src, heap[l[i]].IP, now)
                     ELSE entries,
               set |-> useAff] : i \in Algorithm(m, p, l)}

\* Select(pool, sourceIP, affinity): every result the call can have, as
\* [backend, rr, e]: the backend (Nil with ErrNoBackends), the round-robin
\* index, the affinity entries it leaves and whether it has called Set.
Select(m, p, src) ==
    LET useAff == m.affinity /\ src # ""
        g == IF useAff THEN Get(entries, src, now) ELSE Miss
        l == GetBackends(p)
        rr == IF m.algorithm = "round-robin" THEN roundRobinIndex[p] + 1
              ELSE roundRobinIndex[p]
    IN  IF g.found /\ GetBackend(p, g.ip) # Nil
        THEN {[backend |-> GetBackend(p, g.ip), rr |-> roundRobinIndex[p],
               e |-> entries, set |-> FALSE]}
        ELSE IF Len(l) = 0
        THEN {[backend |-> Nil, rr |-> roundRobinIndex[p], e |-> entries,
               set |-> FALSE]}
        ELSE {[backend |-> l[i], rr |-> rr,
               e |-> IF useAff THEN Set(entries, src, heap[l[i]].IP, now)
                     ELSE entries,
               set |-> useAff] : i \in Algorithm(m, p, l)}

\* The calls of the map, each at the current time.
AffinityGet(s) ==
    LET g == Get(entries, s, now) IN
    /\ lastOp' = Op("Get", s, g.ip, g.found)
    /\ UNCHANGED <<entries, nextSweep, hist>>

AffinitySet(s, ip) ==
    /\ entries' = Set(entries, s, ip, now)
    /\ hist' = HistSet(hist, s, ip, now)
    /\ lastOp' = Op("Set", s, ip, FALSE)
    /\ UNCHANGED nextSweep

AffinityTouch(s) ==
    /\ entries' = Touch(entries, s, now)
    /\ hist' = HistTouch(hist, entries, s, now)
    /\ lastOp' = Op("Touch", s, "", FALSE)
    /\ UNCHANGED nextSweep

\* The ticker of cleanup fires and the loop body runs.
cleanup ==
    /\ now = nextSweep
    /\ entries' = Sweep(entries, now)
    /\ nextSweep' = nextSweep + SweepPeriod
    /\ lastOp' = NoOp
    /\ UNCHANGED hist

\* Time passes, up to the next tick of the cleanup ticker.
AffinityTick ==
    /\ now < nextSweep
    /\ now < AffinityHorizon
    /\ now' = now + 1
    /\ lastOp' = NoOp
    /\ UNCHANGED <<entries, nextSweep, hist>>

\* ------------------------------------------------- forward (TCP, per connection)

\* wire is what has been written on the connection to the backend, closed the
\* endpoints (local, remote) on which Close has been called, tasks the copy
\* goroutines that have not called wg.Done.
IdleConn ==
    [pc |-> "idle", m |-> NoMapping, src |-> "", cookie |-> "", backend |-> Nil,
     nConnect |-> 0, setCookie |-> "", wire |-> <<>>, closed |-> {}, tasks |-> {}]

InFlight(c) == conns[c].pc \notin {"idle", "done"}

\* The handler has returned and its goroutine is gone.
DoneConn == [IdleConn EXCEPT !.pc = "done"]

\* What a handler leaves behind when it returns: the way it ended and how often
\* it has called OnConnect and OnDisconnect.
Exit(mode, reason, nConnect, nDisconnect) ==
    [mode |-> mode, exit |-> reason, nConnect |-> nConnect,
     nDisconnect |-> nDisconnect]

NoExit == Exit("none", "", 0, 0)

\* A connection is accepted on the listener of mapping m.
Accept(c, m, src, cookie) ==
    /\ conns[c].pc = "idle"
    /\ conns' = [conns EXCEPT ![c] =
            [IdleConn EXCEPT !.pc = "select", !.m = m, !.src = src, !.cookie = cookie]]
    /\ IF m.mode = "tcp"
       THEN ops' = ops + 1 /\ opened' = opened + 1
       ELSE UNCHANGED <<ops, opened>>
    /\ UNCHANGED <<poolVars, now, lastExit, resolverVars, affinityVars>>

\* An exit that skips pool.OnDisconnect.
ForwardExit_NoDisconnect(c, reason, h) ==
    LET k == conns[c]
        cn == [conns EXCEPT ![c] = DoneConn]
    IN  /\ conns' = cn
        /\ lastExit' = Exit(k.m.mode, reason, k.nConnect, 0)
        /\ heap' = Collect(h, backends, backendList, cn)
        /\ entries' = IF k.m.affinity /\ k.src # ""
                      THEN Touch(entries, k.src, now) ELSE entries
        /\ lastOp' = IF k.m.affinity /\ k.src # "" THEN NoOp ELSE lastOp
        /\ hist' = IF k.m.affinity /\ k.src # ""
                   THEN HistTouch(hist, entries, k.src, now) ELSE hist
        /\ opened' = opened - 1
        /\ UNCHANGED <<backends, backendList, roundRobinIndex, gen, now,
                       ops, resolverVars, nextSweep>>

\* The deferred calls of forward once OnConnect has run, in the order they
\* run: affinity.Touch, pool.OnDisconnect, opened.Add(-1), local.Close.
ForwardExit(c, reason, h) ==
    LET k == conns[c]
        cn == [conns EXCEPT ![c] = DoneConn]
    IN  /\ conns' = cn
        /\ lastExit' = Exit(k.m.mode, reason, k.nConnect, 1)
        /\ heap' = Collect(OnDisconnect(h, k.backend), backends, backendList, cn)
        /\ entries' = IF k.m.affinity /\ k.src # ""
                      THEN Touch(entries, k.src, now) ELSE entries
        /\ lastOp' = IF k.m.affinity /\ k.src # "" THEN NoOp ELSE lastOp
        /\ hist' = IF k.m.affinity /\ k.src # ""
                   THEN HistTouch(hist, entries, k.src, now) ELSE hist
        /\ opened' = opened - 1
        /\ UNCHANGED <<backends, backendList, roundRobinIndex, gen, now,
                       ops, resolverVars, nextSweep>>

\* selector.Select; with ErrNoBackends forward returns.
forwardSelect(c) ==
    LET k == conns[c] IN
    /\ k.pc = "select" /\ k.m.mode = "tcp"
    /\ \E o \in Select(k.m, k.m.pool, k.src) :
         /\ roundRobinIndex' = [roundRobinIndex EXCEPT ![k.m.pool] = o.rr]
         /\ entries' = o.e
         /\ lastOp' = IF o.e = entries THEN lastOp ELSE NoOp
         /\ hist' = IF o.set
                    THEN HistSet(hist, k.src, heap[o.backend].IP, now)
                    ELSE hist
         /\ IF o.backend = Nil
            THEN /\ conns' = [conns EXCEPT ![c] = DoneConn]
                 /\ lastExit' = Exit("tcp", "nobackends", 0, 0)
                 /\ opened' = opened - 1
            ELSE /\ conns' = [conns EXCEPT ![c].pc = "connect", ![c].backend = o.backend]
                 /\ UNCHANGED <<opened, lastExit>>
    /\ UNCHANGED <<backends, backendList, heap, gen, now, ops,
                   resolverVars, nextSweep>>

\* pool.OnConnect(backend), and its OnDisconnect is deferred.
forwardConnect(c) ==
    LET k == conns[c] IN
    /\ k.pc = "connect" /\ k.m.mode = "tcp"
    /\ heap' = OnConnect(heap, k.backend)
    /\ conns' = [conns EXCEPT ![c].pc = "dial", ![c].nConnect = @ + 1]
    /\ UNCHANGED <<backends, backendList, roundRobinIndex, gen, now,
                   lastExit, ops, opened, resolverVars, affinityVars>>

\* net.Dial succeeds and, with the client PROXY protocol, the header is
\* written to the backend: the two copy tasks start.
forwardDial(c) ==
    /\ conns[c].pc = "dial"
    /\ conns' = [conns EXCEPT ![c].pc = "copy"]
    /\ UNCHANGED <<poolVars, now, lastExit, ops, opened, resolverVars,
                   affinityVars>>

\* A dial failure that returns before OnDisconnect is deferred.
forwardDialFail_Leak(c) ==
    /\ conns[c].pc = "dial"
    /\ ForwardExit_NoDisconnect(c, "dialfail", heap)

\* A dial failure after which forward selects again.
forwardDialFail_Retry(c) ==
    /\ conns[c].pc = "dial"
    /\ conns' = [conns EXCEPT ![c].pc = "select"]
    /\ UNCHANGED <<poolVars, now, lastExit, ops, opened, resolverVars,
                   affinityVars>>

\* net.Dial fails: forward returns.
forwardDialFail(c) ==
    /\ conns[c].pc = "dial"
    /\ ForwardExit(c, "dialfail", heap)

\* net.Dial succeeds, header.WriteTo(remote) fails: forward returns.
forwardHeaderFail(c) ==
    /\ conns[c].pc = "dial"
    /\ conns[c].m.ClientEnabled
    /\ ForwardExit(c, "headerfail", heap)

\* A copy task ends (EOF or error) and closes both endpoints, the other one
\* ends, wg.Wait returns, the n bytes are added and forward returns.
forwardClose(c, n) ==
    /\ conns[c].pc = "copy"
    /\ ForwardExit(c, "closed", AddBytes(heap, conns[c].backend, n))

\* ---------------------------------- forward, from the dial on, step by step

\* The address the accepted connection reports as its own (local.LocalAddr()).
LocalAddr == "198.51.100.1"

\* A PROXY header that always announces version 1.
Header_V1(k) ==
    [Version |-> 1, Command |-> "PROXY", TransportProtocol |-> "TCPv4",
     SourceAddr |-> k.src, DestinationAddr |-> LocalAddr]

\* The proxyproto.Header that forward builds for connection record k.
Header(k) ==
    [Version |-> k.m.ClientVersion, Command |-> "PROXY",
     TransportProtocol |-> "TCPv4",
     SourceAddr |-> k.src, DestinationAddr |-> LocalAddr]

\* What a failed header.WriteTo may have put on the wire: nothing, or a part
\* of the header.
TornHeader == [Command |-> "PROXY"]

\* One byte of the client.
Payload == [byte |-> "client"]

CopyTasks == {"up", "down"}

\* The endpoint a copy task reads from: io.Copy(remote, local) reads local,
\* io.Copy(local, remote) reads remote.
ReadEnd(t) == IF t = "up" THEN "local" ELSE "remote"

\* net.Dial succeeds: with the client PROXY protocol the header comes next,
\* without it the two copy tasks start.
forwardDialed(c) ==
    LET k == conns[c] IN
    /\ k.pc = "dial"
    /\ conns' = IF k.m.ClientEnabled
                THEN [conns EXCEPT ![c].pc = "header"]
                ELSE [conns EXCEPT ![c].pc = "copy", ![c].tasks = CopyTasks]
    /\ UNCHANGED <<poolVars, now, lastExit, ops, opened, resolverVars,
                   affinityVars>>

\* header.WriteTo(remote) succeeds: the two copy tasks start.
forwardHeader(c) ==
    LET k == conns[c] IN
    /\ k.pc = "header"
    /\ conns' = [conns EXCEPT ![c].pc = "copy", ![c].tasks = CopyTasks,
                              ![c].wire = Append(@, Header(k))]
    /\ UNCHANGED <<poolVars, now, lastExit, ops, opened, resolverVars,
                   affinityVars>>

\* header.WriteTo(remote) fails: forward returns, its deferred calls pending.
forwardHeaderWriteFail(c) ==
    /\ conns[c].pc = "header"
    /\ \E w \in {<<>>, <<TornHeader>>} :
          conns' = [conns EXCEPT ![c].pc = "return", ![c].wire = w]
    /\ UNCHANGED <<poolVars, now, lastExit, ops, opened, resolverVars,
                   affinityVars>>

\* The deferred calls after a failed header write: remote.Close,
\* affinity.Touch, pool.OnDisconnect, opened.Add(-1), local.Close.
forwardReturn(c) ==
    /\ conns[c].pc = "return"
    /\ ForwardExit(c, "headerfail", heap)

\* io.Copy(remote, local) writes a byte of the client to the backend.
copyPayload(c) ==
    LET k == conns[c] IN
    /\ k.pc = "copy" /\ "up" \in k.tasks /\ k.closed = {}
    /\ Len(k.wire) < MaxWire
    /\ conns' = [conns EXCEPT ![c].wire = Append(@, Payload)]
    /\ UNCHANGED <<poolVars, now, lastExit, ops, opened, resolverVars,
                   affinityVars>>

\* A copy task that ends without closing anything.
copyEnd_NoClose(c, t) ==
    /\ conns[c].pc = "copy" /\ t \in conns[c].tasks
    /\ conns' = [conns EXCEPT ![c].tasks = @ \ {t}]
    /\ UNCHANGED <<poolVars, now, lastExit, ops, opened, resolverVars,
                   affinityVars>>

\* io.Copy of task t returns (EOF or error of a peer); the deferred calls of
\* the goroutine close local and remote, then wg.Done.
copyEnd(c, t) ==
    /\ conns[c].pc = "copy" /\ t \in conns[c].tasks
    /\ conns' = [conns EXCEPT ![c].tasks = @ \ {t},
                              ![c].closed = {"local", "remote"}]
    /\ UNCHANGED <<poolVars, now, lastExit, ops, opened, resolverVars,
                   affinityVars>>

\* io.Copy of task t returns because the endpoint it reads from is closed.
copyAbort(c, t) ==
    /\ ReadEnd(t) \in conns[c].closed
    /\ copyEnd(c, t)

\* wg.Wait returns: the bytes are added (received is what went up, sent is
\* any number) and forward returns through its deferred calls.
forwardWait(c) ==
    LET k == conns[c]
        received == Cardinality({i \in DOMAIN k.wire : k.wire[i] = Payload})
    IN
    /\ k.pc = "copy" /\ k.tasks = {}
    /\ \E sent \in 0..1 :
          ForwardExit(c, "closed", AddBytes(heap, k.backend, sent + received))

\* ------------------------------------- handleRequestAndRedirect (per request)

\* The backend of the request when nothing else runs in between: IP affinity,
\* then the cookie, then the selector.
handleSelect(c) ==
    LET k == conns[c]
        p == k.m.pool
        g == IF k.m.affinity /\ k.src # "" THEN Get(entries, k.src, now) ELSE Miss
        byIP == IF g.found THEN GetBackend(p, g.ip) ELSE Nil
        byCookie == IF k.cookie # "" /\ checkIp(p, k.cookie)
                    THEN GetBackend(p, k.cookie) ELSE Nil
    IN
    /\ k.pc = "select" /\ k.m.mode = "http"
    /\ IF byIP # Nil \/ byCookie # Nil
       THEN /\ conns' = [conns EXCEPT ![c].pc = "connect", ![c].cookie = "",
                            ![c].backend = IF byIP # Nil THEN byIP ELSE byCookie]
            /\ UNCHANGED <<roundRobinIndex, entries, lastOp, hist, lastExit>>
       ELSE \E o \in Select(k.m, p, k.src) :
              /\ roundRobinIndex' = [roundRobinIndex EXCEPT ![p] = o.rr]
              /\ entries' = o.e
              /\ lastOp' = IF o.e = entries THEN lastOp ELSE NoOp
              /\ hist' = IF o.set
                         THEN HistSet(hist, k.src, heap[o.backend].IP, now)
                         ELSE hist
              /\ IF o.backend = Nil
                 THEN /\ conns' = [conns EXCEPT ![c] = DoneConn]
                      /\ lastExit' = Exit("http", "503", 0, 0)
                 ELSE /\ conns' = [conns EXCEPT ![c].pc = "connect",
                                      ![c].cookie = "", ![c].backend = o.backend]
                      /\ UNCHANGED lastExit
    /\ UNCHANGED <<backends, backendList, heap, gen, now, ops, opened,
                   resolverVars, nextSweep>>

\* Priority 1 asks the cookie first.
handleAffinity_CookieFirst(c) ==
    LET k == conns[c]
        g == IF k.m.affinity /\ k.src # "" THEN Get(entries, k.src, now) ELSE Miss
        byIP == IF g.found THEN GetBackend(k.m.pool, g.ip) ELSE Nil
        byCookie == IF k.cookie # "" THEN GetBackend(k.m.pool, k.cookie) ELSE Nil
        b == IF byCookie # Nil THEN byCookie ELSE byIP
    IN
    /\ k.pc = "select" /\ k.m.mode = "http"
    /\ conns' = IF b # Nil
                THEN [conns EXCEPT ![c].pc = "connect", ![c].backend = b]
                ELSE [conns EXCEPT ![c].pc = "cookie"]
    /\ UNCHANGED <<poolVars, now, lastExit, ops, opened, resolverVars,
                   affinityVars>>

\* Priority 1: affinity.Get and pool.GetBackend.
handleAffinity(c) ==
    LET k == conns[c]
        g == IF k.m.affinity /\ k.src # "" THEN Get(entries, k.src, now) ELSE Miss
        b == IF g.found THEN GetBackend(k.m.pool, g.ip) ELSE Nil
    IN
    /\ k.pc = "select" /\ k.m.mode = "http"
    /\ conns' = IF b # Nil
                THEN [conns EXCEPT ![c].pc = "connect", ![c].backend = b]
                ELSE [conns EXCEPT ![c].pc = "cookie"]
    /\ UNCHANGED <<poolVars, now, lastExit, ops, opened, resolverVars,
                   affinityVars>>

\* Priority 2 that never trusts the cookie.
handleCookie_Skip(c) ==
    /\ conns[c].pc = "cookie"
    /\ conns' = [conns EXCEPT ![c].pc = "algorithm"]
    /\ UNCHANGED <<poolVars, now, lastExit, ops, opened, resolverVars,
                   affinityVars>>

\* Priority 2: r.Cookie and pool.checkIp(cookie.Value).
handleCookie(c) ==
    LET k == conns[c] IN
    /\ k.pc = "cookie"
    /\ conns' = IF k.cookie # "" /\ checkIp(k.m.pool, k.cookie)
                THEN [conns EXCEPT ![c].pc = "cookieget"]
                ELSE [conns EXCEPT ![c].pc = "algorithm"]
    /\ UNCHANGED <<poolVars, now, lastExit, ops, opened, resolverVars,
                   affinityVars>>

\* Priority 2 that takes any Backend object with the address of the cookie,
\* member of the pool or not.
handleCookieGet_Stale(c) ==
    LET k == conns[c]
        known == {b \in DOMAIN heap : heap[b].IP = k.cookie}
    IN
    /\ k.pc = "cookieget"
    /\ conns' = IF known # {}
                THEN [conns EXCEPT ![c].pc = "connect",
                                   ![c].backend = CHOOSE b \in known : TRUE]
                ELSE [conns EXCEPT ![c].pc = "algorithm"]
    /\ UNCHANGED <<poolVars, now, lastExit, ops, opened, resolverVars,
                   affinityVars>>

\* Priority 2, after checkIp: pool.GetBackend(cookie.Value), which takes the
\* lock of the pool again.
handleCookieGet(c) ==
    LET k == conns[c]
        b == GetBackend(k.m.pool, k.cookie)
    IN
    /\ k.pc = "cookieget"
    /\ conns' = IF b # Nil
                THEN [conns EXCEPT ![c].pc = "connect", ![c].backend = b]
                ELSE [conns EXCEPT ![c].pc = "algorithm"]
    /\ UNCHANGED <<poolVars, now, lastExit, ops, opened, resolverVars,
                   affinityVars>>

\* Priority 3: selector.Select; with ErrNoBackends the answer is 503.
handleAlgorithm(c) ==
    LET k == conns[c]
        p == k.m.pool
    IN
    /\ k.pc = "algorithm"
    /\ \E o \in Select(k.m, p, k.src) :
         /\ roundRobinIndex' = [roundRobinIndex EXCEPT ![p] = o.rr]
         /\ entries' = o.e
         /\ lastOp' = IF o.e = entries THEN lastOp ELSE NoOp
         /\ hist' = IF o.set
                    THEN HistSet(hist, k.src, heap[o.backend].IP, now)
                    ELSE hist
         /\ IF o.backend = Nil
            THEN /\ conns' = [conns EXCEPT ![c] = DoneConn]
                 /\ lastExit' = Exit("http", "503", 0, 0)
            ELSE /\ conns' = [conns EXCEPT ![c].pc = "connect",
                                                ![c].backend = o.backend]
                 /\ UNCHANGED lastExit
    /\ UNCHANGED <<backends, backendList, heap, gen, now, ops, opened,
                   resolverVars, nextSweep>>

\* http.SetCookie(w, cookie), ops.Add(1), opened.Add(1),
\* pool.OnConnect(backend).
handleConnect(c) ==
    LET k == conns[c] IN
    /\ k.pc = "connect" /\ k.m.mode = "http"
    /\ heap' = OnConnect(heap, k.backend)
    /\ conns' = [conns EXCEPT ![c].pc = "serve", ![c].nConnect = @ + 1,
                              ![c].setCookie = heap[k.backend].IP]
    /\ ops' = ops + 1
    /\ opened' = opened + 1
    /\ UNCHANGED <<backends, backendList, roundRobinIndex, gen, now,
                   lastExit, resolverVars, affinityVars>>

\* proxy.ServeHTTP returns (served, or the reverse proxy's own error answer).
handleReturn(c) ==
    /\ conns[c].pc = "serve"
    /\ ForwardExit(c, "served", heap)

\* proxy.ServeHTTP cannot reach the backend: no ErrorHandler is set, so the
\* ReverseProxy answers 502 Bad Gateway, and the handler returns.
handleProxyError(c) ==
    /\ conns[c].pc = "serve"
    /\ ForwardExit(c, "502", heap)

\* --------------------------------------------------- BackendPool.dnsProbe

\* One round of the pool's own probe loop whose lookup returned ips. The round
\* follows a blocking lookup, so its time.Now() is later than every LastSeen
\* written before.
dnsProbe(p, ips) ==
    /\ now < MaxTime
    /\ now' = now + 1
    /\ ApplyIPs(p, ips, now', TRUE)

\* One round whose lookup failed: "continue"; the round has taken its time.
dnsProbeFail(p) ==
    /\ now < MaxTime
    /\ now' = now + 1
    /\ UNCHANGED poolVars

\* --------------------------------------------------------------- DNSResolver

\* The locals of start at the top of a round.
StartRound == [pc |-> "lookup", err |-> FALSE, newIPs |-> <<>>,
               subscribers |-> <<>>, i |-> 1]

NoSubscribe == [pc |-> "idle", sub |-> ""]

\* The list updateIPs leaves in r.ips, and what it returns.
updateIPs(old, new) ==
    IF Len(old) # Len(new)
    THEN [ips |-> new, changed |-> TRUE]
    ELSE IF \E i \in DOMAIN new : new[i] \notin Range(old)
         THEN [ips |-> new, changed |-> TRUE]
         ELSE [ips |-> old, changed |-> FALSE]

\* net.LookupIP returns ips.
startLookup(ips) ==
    /\ probe.pc = "lookup"
    /\ probe' = [probe EXCEPT !.pc = "update", !.newIPs = ips]
    /\ UNCHANGED <<rIps, rSubscribers, rMu, subscribing, delivered>>

\* A failed lookup handled as an empty answer.
startLookupFail_PublishEmpty ==
    /\ probe.pc = "lookup"
    /\ probe' = [probe EXCEPT !.pc = "update", !.err = TRUE, !.newIPs = <<>>]
    /\ UNCHANGED <<rIps, rSubscribers, rMu, subscribing, delivered>>

\* net.LookupIP returns an error: "continue".
startLookupFail ==
    /\ probe.pc = "lookup"
    /\ probe' = [probe EXCEPT !.pc = "sleep", !.err = TRUE]
    /\ UNCHANGED <<rIps, rSubscribers, rMu, subscribing, delivered>>

\* changed := r.updateIPs(newIPs), under r.mu.Lock.
startUpdateIPs ==
    /\ probe.pc = "update"
    /\ rMu = "free"
    /\ LET r == updateIPs(rIps, probe.newIPs) IN
         /\ rIps' = r.ips
         /\ probe' = [probe EXCEPT !.pc = IF r.changed THEN "notify" ELSE "sleep"]
    /\ UNCHANGED <<rSubscribers, rMu, subscribing, delivered>>

\* notifySubscribers copies r.subscribers under r.mu.RLock.
notifySubscribers ==
    /\ probe.pc = "notify"
    /\ rMu = "free"
    /\ probe' = [probe EXCEPT !.pc = "range", !.subscribers = rSubscribers,
                               !.i = 1]
    /\ UNCHANGED <<rIps, rSubscribers, rMu, subscribing, delivered>>

\* sub.OnDNSUpdate(ips) for the next subscriber of the copy.
notifyCall ==
    /\ probe.pc = "range"
    /\ probe.i <= Len(probe.subscribers)
    /\ LET sub == probe.subscribers[probe.i] IN
         /\ OnDNSUpdate(sub, probe.newIPs)
         /\ delivered' = [delivered EXCEPT ![sub] = <<probe.newIPs>>]
    /\ probe' = [probe EXCEPT !.pc = "calling"]
    /\ UNCHANGED <<roundRobinIndex, rIps, rSubscribers, rMu, subscribing>>

notifyReturn ==
    /\ probe.pc = "calling"
    /\ probe' = [probe EXCEPT !.pc = "range", !.i = @ + 1]
    /\ UNCHANGED <<poolVars, now, rIps, rSubscribers, rMu, subscribing,
                   delivered>>

\* The range is over and notifySubscribers returns.
notifyDone ==
    /\ probe.pc = "range"
    /\ probe.i > Len(probe.subscribers)
    /\ probe' = [probe EXCEPT !.pc = "sleep"]
    /\ UNCHANGED <<poolVars, now, rIps, rSubscribers, rMu, subscribing,
                   delivered>>

\* time.Sleep(r.probePeriod) and the top of the next round.
startSleep ==
    /\ probe.pc = "sleep"
    /\ probe' = StartRound
    /\ UNCHANGED <<poolVars, now, rIps, rSubscribers, rMu, subscribing,
                   delivered>>

\* Subscribe: r.mu.Lock and the append.
SubscribeLock(sub) ==
    /\ subscribing.pc = "idle"
    /\ rMu = "free"
    /\ rMu' = "Subscribe"
    /\ rSubscribers' = Append(rSubscribers, sub)
    /\ subscribing' = [pc |-> "locked", sub |-> sub]
    /\ UNCHANGED <<poolVars, now, rIps, probe, delivered>>

\* Subscribe: len(r.ips) > 0 and sub.OnDNSUpdate(r.ips) is called.
SubscribeCall ==
    /\ subscribing.pc = "locked"
    /\ Len(rIps) > 0
    /\ OnDNSUpdate(subscribing.sub, rIps)
    /\ delivered' = [delivered EXCEPT ![subscribing.sub] = <<rIps>>]
    /\ subscribing' = [subscribing EXCEPT !.pc = "calling"]
    /\ UNCHANGED <<roundRobinIndex, rIps, rSubscribers, rMu, probe>>

\* A Subscribe that may return without handing over the stored list.
SubscribeReturn_NoCall ==
    /\ subscribing.pc \in {"calling", "locked"}
    /\ rMu' = "free"
    /\ subscribing' = NoSubscribe
    /\ UNCHANGED <<poolVars, now, rIps, rSubscribers, probe, delivered>>

\* Subscribe returns, after the call or with no IPs yet: the deferred Unlock.
SubscribeReturn ==
    /\ \/ subscribing.pc = "calling"
       \/ subscribing.pc = "locked" /\ Len(rIps) = 0
    /\ rMu' = "free"
    /\ subscribing' = NoSubscribe
    /\ UNCHANGED <<poolVars, now, rIps, rSubscribers, probe, delivered>>

\* ------------------------------------------------------------------ Init

InitPools ==
    /\ backends = [p \in Pools |-> NewBackendPool]
    /\ backendList = [p \in Pools |-> <<>>]
    /\ roundRobinIndex = [p \in Pools |-> 0]
    /\ heap = <<>>
    /\ gen = [p \in Pools |-> [ip \in IPs |-> 0]]
    /\ now = 0

InitConns ==
    /\ conns = [c \in ConnIds |-> IdleConn]
    /\ lastExit = NoExit
    /\ ops = 0
    /\ opened = 0

InitResolver ==
    /\ rIps = <<>>
    /\ rSubscribers = <<>>
    /\ rMu = "free"
    /\ probe = StartRound
    /\ subscribing = NoSubscribe
    /\ delivered = [p \in Pools |-> <<>>]

InitAffinity ==
    /\ entries = <<>>
    /\ nextSweep = SweepPeriod
    /\ lastOp = NoOp
    /\ hist = [s \in Sources |-> NoHist]

InitPicks == picks = <<>>

\* smain has set up every mapping.
NotParsed == [ports |-> <<>>, err |-> FALSE, done |-> FALSE]

\* No parsePortRange call is under way.
InitPorts == portStr = <<>> /\ parsed = NotParsed

NoArgs ==
    [options |-> <<>>, clientProxyProtocol |-> FALSE,
     serverProxyProtocol |-> FALSE, affinityTTL |-> 0]

NotSetUp == [done |-> FALSE]

\* No mapping is being set up.
InitSetup == args = NoArgs /\ setup = NotSetUp

NoErr == "nil"

NotCopying ==
    [pc |-> [t \in {"up", "down"} |-> "idle"], err |-> NoErr, err1 |-> NoErr,
     err2 |-> NoErr, closed |-> FALSE, ends |-> {}, first |-> <<>>,
     reports |-> <<>>]

NotSelecting ==
    [pc |-> "idle", algorithm |-> "", backends |-> <<>>, i |-> 0,
     minConns |-> <<>>, maxConns |-> 0, candidates |-> <<>>, weights |-> <<>>,
     totalWeight |-> 0, selected |-> Nil]

\* The lock of the pool (a sync.RWMutex) as the two goroutines see it: the
\* read locks held, and whether a writer has called Lock and waits, or holds
\* the lock.
NotLocking ==
    [pc |-> "idle", readers |-> 0, writer |-> "idle", op |-> "",
     backends |-> <<>>, ip |-> "", err |-> FALSE]

\* No goroutine is followed step by step.
InitSteps ==
    /\ copying = Nil
    /\ selecting = Nil
    /\ locking = Nil

InitMain == smain = "listen" /\ InitPorts /\ InitSetup /\ InitSteps

Init ==
    /\ InitPools /\ InitConns /\ InitResolver /\ InitAffinity /\ InitPicks
    /\ InitMain

\* ---------------------------------------------- the pool and its connections

\* The listeners that share pool p1.
PoolMappings ==
    {Mapping("p1", "tcp", "least-connection", FALSE, FALSE, TRUE),
     Mapping("p1", "http", "round-robin", FALSE, FALSE, FALSE)}

\* --backend-weights for the host of a pool
WeightMaps == UNION {[S -> WeightValues] : S \in SUBSET ProbedIPs}

PoolAccept ==
    \E c \in ConnIds, m \in PoolMappings, cookie \in {"", "10.0.0.1"} :
        /\ m.mode = "tcp" => cookie = ""
        /\ c = (IF m.mode = "tcp" THEN "c1" ELSE "c2")
        /\ Accept(c, m, "192.0.2.1", cookie)
        /\ UNCHANGED <<picks, mainVars>>

PoolOnDNSUpdate ==
    \E ips \in LookupResults :
        /\ OnDNSUpdate("p1", ips)
        /\ UNCHANGED <<roundRobinIndex, connVars, resolverVars,
                       affinityVars, picks, mainVars>>

PoolDnsProbe ==
    \E ips \in LookupResults :
        /\ dnsProbe("p1", ips)
        /\ UNCHANGED <<roundRobinIndex, connVars, resolverVars,
                       affinityVars, picks, mainVars>>

PoolSetWeights ==
    \E w \in WeightMaps :
        /\ SetWeights("p1", w)
        /\ UNCHANGED <<backends, backendList, roundRobinIndex, gen, now,
                       connVars, resolverVars, affinityVars, picks, mainVars>>

PoolForward ==
    /\ \E c \in ConnIds :
          \/ forwardSelect(c)
          \/ forwardConnect(c)
          \/ forwardDial(c)
          \/ forwardDialFail(c)
          \/ forwardHeaderFail(c)
          \/ \E n \in {1} : forwardClose(c, n)
    /\ UNCHANGED <<picks, mainVars>>

PoolHandle ==
    /\ \E c \in ConnIds :
          \/ handleSelect(c)
          \/ handleConnect(c)
          \/ handleReturn(c)
    /\ UNCHANGED <<picks, mainVars>>

PoolDnsProbeFail ==
    /\ dnsProbeFail("p1")
    /\ UNCHANGED <<connVars, resolverVars, affinityVars, picks, mainVars>>

NextPool ==
    \/ PoolAccept
    \/ PoolDnsProbeFail
    \/ PoolOnDNSUpdate
    \/ PoolDnsProbe
    \/ PoolSetWeights
    \/ PoolForward
    \/ PoolHandle

SpecPool == Init /\ [][NextPool]_vars

\* --------------------------------------- the resolver and its subscribed pools

ResolverStart ==
    /\ \/ \E ips \in LookupResults : startLookup(ips)
       \/ startLookupFail
       \/ startUpdateIPs
       \/ notifySubscribers
       \/ notifyReturn
       \/ notifyDone
       \/ startSleep
    /\ UNCHANGED <<poolVars, now, connVars, affinityVars, picks, mainVars>>

ResolverNotifyCall ==
    /\ notifyCall
    /\ UNCHANGED <<connVars, affinityVars, picks, mainVars>>

ResolverSubscribe ==
    /\ \/ \E sub \in Pools : sub \notin Range(rSubscribers) /\ SubscribeLock(sub)
       \/ SubscribeReturn
    /\ UNCHANGED <<connVars, affinityVars, picks, mainVars>>

ResolverSubscribeCall ==
    /\ SubscribeCall
    /\ UNCHANGED <<connVars, affinityVars, picks, mainVars>>

ResolverDnsProbeFail ==
    /\ \E p \in Pools : dnsProbeFail(p)
    /\ UNCHANGED <<connVars, resolverVars, affinityVars, picks, mainVars>>

NextResolver ==
    \/ ResolverStart
    \/ ResolverNotifyCall
    \/ ResolverSubscribe
    \/ ResolverSubscribeCall
    \/ ResolverDnsProbeFail

SpecResolver == Init /\ [][NextResolver]_vars

\* ------------------------------------------------------------ pool claims

Quiescent == \A c \in ConnIds : ~InFlight(c)

\* C1: a TCP connection that passed selection has called OnConnect once and
\* OnDisconnect once when forward returns, whatever the exit (dial failure,
\* header write failure, close), one that failed selection has called neither,
\* and with no connection in flight every backend's ActiveConns is back at the
\* value it had before the connections started (0).
ConnectDisconnectBalanced ==
    /\ lastExit.mode = "tcp" =>
          IF lastExit.exit = "nobackends"
          THEN lastExit.nConnect = 0 /\ lastExit.nDisconnect = 0
          ELSE lastExit.nConnect = 1 /\ lastExit.nDisconnect = 1
    /\ \A c \in ConnIds : conns[c].nConnect <= 1
    /\ Quiescent => \A b \in DOMAIN heap : heap[b].ActiveConns = 0

\* Both connections are over, the last one by a failed header write, and the
\* backend they used has served two connections.
BalancedAfterHeaderFail ==
    /\ \A c \in {"c1", "c2"} : conns[c].pc = "done"
    /\ lastExit = Exit("tcp", "headerfail", 1, 1)
    /\ \E b \in DOMAIN heap : heap[b].TotalConns = 2 /\ heap[b].ActiveConns = 0

\* C2: no Backend object ever has a negative ActiveConns, the ones a DNS update
\* has dropped from the pool included.
ActiveConnsNonNegative == \A b \in DOMAIN heap : heap[b].ActiveConns >= 0

\* A connection is in flight to a backend that a DNS update removed, and a later
\* update has added a new Backend for the same IP.
InFlightToReplacedBackend ==
    \E c \in ConnIds :
        LET b == conns[c].backend IN
        /\ conns[c].pc \in {"dial", "copy", "serve"}
        /\ backends["p1"][b[2]] \notin {Nil, b}
        /\ heap[b].ActiveConns = 1
        /\ heap[backends["p1"][b[2]]].ActiveConns = 0

\* What one probe round that applies the list ips to pool p leaves.
Applied(p, ips) ==
    LET S == Range(ips)
        l == backendList'[p]
    IN  /\ {heap'[l[i]].IP : i \in DOMAIN l} = S
        /\ \A ip \in IPs \ S : backends'[p][ip] = Nil
        /\ \A ip \in S :
             LET old == backends[p][ip]
                 new == backends'[p][ip]
             IN  IF old = Nil
                 THEN /\ new # Nil
                      /\ new \notin DOMAIN heap
                      /\ heap'[new].IP = ip
                      /\ heap'[new].Weight = 1
                      /\ heap'[new].ActiveConns = 0
                      /\ heap'[new].TotalConns = 0
                      /\ heap'[new].TotalBytes = 0
                 ELSE /\ new = old
                      /\ heap'[new].Weight = heap[old].Weight
                      /\ heap'[new].ActiveConns = heap[old].ActiveConns
                      /\ heap'[new].TotalConns = heap[old].TotalConns
                      /\ heap'[new].TotalBytes = heap[old].TotalBytes

\* C3: a probe round that applies the IP set S (OnDNSUpdate, or a successful
\* round of dnsProbe) leaves a snapshot whose IPs are exactly S: absent IPs are
\* removed in that round, new IPs get a fresh Backend with weight 1 and zero
\* counters, and the others keep their Backend object, counters and weight.
ProbeRoundAppliesSet ==
    [][\A ips \in LookupResults :
          (OnDNSUpdate("p1", ips) \/ dnsProbe("p1", ips)) => Applied("p1", ips)]_vars

\* A round has removed 10.0.0.1 and kept the Backend of 10.0.0.2, which has a
\* configured weight, a connection in flight and a closed one.
KeptBackendAfterRemoval ==
    LET b == backends["p1"]["10.0.0.2"] IN
    /\ backends["p1"]["10.0.0.1"] = Nil
    /\ gen["p1"]["10.0.0.1"] = 1
    /\ b # Nil
    /\ b[3] = 1
    /\ heap[b].LastSeen = now
    /\ now >= 2
    /\ heap[b].Weight = 3
    /\ heap[b].ActiveConns = 1
    /\ heap[b].TotalConns = 2

\* C4: the snapshot list and the map have the same members: every Backend of
\* the map is in the list exactly once, and every element of the list is the
\* map's Backend for its IP.
SnapshotMatchesMap ==
    \A p \in Pools :
        LET l == backendList[p] IN
        /\ \A i, j \in DOMAIN l : i # j => l[i] # l[j]
        /\ Range(l) = {backends[p][ip] : ip \in IPs} \ {Nil}
        /\ \A i \in DOMAIN l : backends[p][heap[l[i]].IP] = l[i]

\* The pool has lost one of two backends, after SetWeights and a second
\* Backend object for the IP that is left.
SnapshotAfterLoss ==
    /\ Len(backendList["p1"]) = 1
    /\ backends["p1"]["10.0.0.1"] = Nil
    /\ gen["p1"]["10.0.0.1"] = 1
    /\ gen["p1"]["10.0.0.2"] = 2
    /\ heap[backendList["p1"][1]].Weight = 3

\* -------------------------------------------------------- resolver claims

\* C5: a round whose lookup fails publishes nothing: the resolver's list, the
\* subscribers, what they were handed, the pools' maps, snapshots and Backend
\* counters are as before the round, and the next step of the loop is the sleep
\* that leads to the next lookup.
FailedLookupPublishesNothing ==
    [][/\ startLookupFail =>
             UNCHANGED <<rIps, rSubscribers, delivered, backends, backendList,
                         heap>>
       /\ (\E p \in Pools : dnsProbeFail(p)) =>
             UNCHANGED <<backends, backendList, heap>>
       /\ startLookupFail => probe'.pc = "sleep"
       /\ (probe.pc = "sleep" /\ probe' # probe) => probe'.pc = "lookup"
      ]_vars

\* A lookup has failed after an earlier round filled pool p1 through the
\* resolver, and the pool still has the backends of that round.
FailedLookupAfterPublish ==
    /\ probe.pc = "sleep"
    /\ probe.err
    /\ rIps = <<"10.0.0.1", "10.0.0.2">>
    /\ delivered["p1"] = <<rIps>>
    /\ Len(backendList["p1"]) = 2

\* C6: a successful round notifies exactly when the resolved IP set differs
\* from the stored one, and a round that notified has handed the full new list
\* to every subscriber it found.
NotifyIffSetChanged ==
    [][/\ (probe.pc = "update" /\ probe'.pc # "update") =>
             ((probe'.pc = "notify") <=> (Range(probe.newIPs) # Range(rIps)))
       /\ (probe.pc = "range" /\ probe'.pc = "sleep") =>
             \A i \in DOMAIN probe.subscribers :
                 delivered[probe.subscribers[i]] = <<probe.newIPs>>
      ]_vars

\* The goroutine th is inside a call of a subscriber's OnDNSUpdate.
Calling(th) ==
    IF th = "Subscribe" THEN subscribing.pc = "calling" ELSE probe.pc = "calling"

\* C7: no goroutine of the resolver is inside a subscriber's OnDNSUpdate while
\* it holds r.mu, neither start (notifySubscribers) nor Subscribe.
NoCallUnderLock ==
    \A th \in {"start", "Subscribe"} : Calling(th) => rMu # th

\* ------------------------------------------------------ the affinity map alone

AffinityCalls ==
    /\ \/ \E s \in Sources : AffinityGet(s)
       \/ \E s \in Sources, ip \in ProbedIPs : AffinitySet(s, ip)
       \/ \E s \in Sources : AffinityTouch(s)
       \/ cleanup
    /\ UNCHANGED <<poolVars, now, connVars, resolverVars, picks, mainVars>>

AffinityClock ==
    /\ AffinityTick
    /\ UNCHANGED <<poolVars, connVars, resolverVars, picks, mainVars>>

NextAffinity == AffinityCalls \/ AffinityClock

SpecAffinity == Init /\ [][NextAffinity]_vars

\* ---------------------------------------------------------- affinity claims

\* C8: Get(s) is a hit exactly when s has an entry whose age is at most ttl,
\* and then returns the backend of the most recent Set(s, .); right after
\* Set(s, ip), Get(s) is (ip, true); a Set for a source that has an entry adds
\* none, and no Set changes the binding of another source.
GetHitsIffLive ==
    [][/\ lastOp'.op = "Get" =>
            LET s == lastOp'.src IN
            /\ lastOp'.found <=>
                  (s \in DOMAIN entries /\ now - entries[s].lastUsed <= TTL)
            /\ lastOp'.found => lastOp'.ip = hist[s].ip
            /\ entries' = entries
       /\ lastOp'.op = "Set" =>
            LET s == lastOp'.src IN
            /\ Get(entries', s, now') = [ip |-> lastOp'.ip, found |-> TRUE]
            /\ DOMAIN entries' = DOMAIN entries \cup {s}
            /\ \A o \in DOMAIN entries \ {s} : entries'[o] = entries[o]
      ]_vars

\* A Get hits on an entry whose age is exactly ttl and whose backend a second
\* Set replaced, while the other source is bound to the other backend.
GetHitAtTTL ==
    /\ lastOp = Op("Get", "192.0.2.1", "10.0.0.2", TRUE)
    /\ now - entries["192.0.2.1"].lastUsed = TTL
    /\ hist["192.0.2.1"].setAt = entries["192.0.2.1"].lastUsed
    /\ "192.0.2.2" \in DOMAIN entries
    /\ entries["192.0.2.2"].backendIP = "10.0.0.1"

\* C9: after a Touch at time t that found a live entry, and with no Set since,
\* Get is a hit with the backend of the entry at every time up to t + ttl; a
\* Touch of a source that has no entry creates none.
TouchExtends ==
    [][/\ \A s \in Sources :
            (hist'[s].touchedAt >= 0 /\ now' <= hist'[s].touchedAt + TTL) =>
                Get(entries', s, now') = [ip |-> hist'[s].ip, found |-> TRUE]
       /\ (lastOp'.op = "Touch" /\ lastOp'.src \notin DOMAIN entries) =>
                lastOp'.src \notin DOMAIN entries'
      ]_vars

\* The entry is still a hit ttl after its Touch, later than ttl after its Set
\* and after the sweep of this tick.
HitAtTouchPlusTTL ==
    \E s \in Sources :
        /\ hist[s].touchedAt >= 1
        /\ now = hist[s].touchedAt + TTL
        /\ now - hist[s].setAt > TTL
        /\ nextSweep > now
        /\ Get(entries, s, now).found

\* C10: from a state where the entry of s is expired, a step that is not a
\* Set(s, .) leaves Get(s) a miss: neither the sweeper nor a Touch makes the
\* entry observable again.
ExpiredStaysUnobservable ==
    [][\A s \in Sources :
          (/\ s \in DOMAIN entries
           /\ now - entries[s].lastUsed > TTL
           /\ ~(lastOp'.op = "Set" /\ lastOp'.src = s)) =>
                ~Get(entries', s, now').found
      ]_vars

\* C11: an entry that is not set or touched again is deleted by the sweeper no
\* later than ttl + ttl/2 after its last use (at that age it is only still in
\* the map while the sweep of that instant is pending), so Size stops counting
\* it; and once its age exceeds ttl, Get is a miss for it.
SweptWithinTTLAndHalf ==
    \A s \in Sources :
        LET age == now - hist[s].usedAt IN
        /\ s \in DOMAIN entries =>
              /\ hist[s].usedAt >= 0
              /\ age <= TTL + TTL \div 2
              /\ age = TTL + TTL \div 2 => now = nextSweep
        /\ (hist[s].usedAt >= 0 /\ age > TTL) => ~Get(entries, s, now).found
        /\ (hist[s].usedAt >= 0 /\ age > TTL + TTL \div 2) =>
              Size(entries) <= Cardinality(Sources \ {s})

\* Both sources were set at time 0 and not used again; ttl + ttl/2 later the
\* sweeper has run and the map is empty.
SweptAtTTLAndHalf ==
    /\ \A s \in Sources : hist[s].usedAt = 0
    /\ now = TTL + TTL \div 2
    /\ nextSweep > now
    /\ Size(entries) = 0

\* ----------------------------------- TCP listeners with affinity on one pool

\* The listeners of host p1, which has --backend-weights: one per algorithm
\* with the affinity option and one without it.
StickyMappings ==
    {Mapping("p1", "tcp", "random", FALSE, TRUE, FALSE),
     Mapping("p1", "tcp", "round-robin", FALSE, TRUE, FALSE),
     Mapping("p1", "tcp", "least-connection", FALSE, TRUE, FALSE),
     Mapping("p1", "tcp", "weighted-random", TRUE, TRUE, FALSE),
     Mapping("p1", "tcp", "round-robin", FALSE, FALSE, FALSE)}

\* What the lookups of the host return over time: both backends, one, none.
StickyLookups == {<<"10.0.0.1", "10.0.0.2">>, <<"10.0.0.2">>, <<>>}

\* Slot c1 is a client of the least-connection listener, slot c2 a client of
\* any listener; the peer address is a TCP address, or not ("").
StickyAccept ==
    /\ \/ Accept("c1",
                 Mapping("p1", "tcp", "least-connection", FALSE, TRUE, FALSE),
                 "192.0.2.1", "")
       \/ \E m \in StickyMappings, src \in {"192.0.2.1", ""} :
             /\ src = "" => m.algorithm = "least-connection"
             /\ Accept("c2", m, src, "")
    /\ UNCHANGED <<picks, mainVars>>

StickyForward ==
    /\ \E c \in ConnIds :
          \/ forwardSelect(c)
          \/ forwardConnect(c)
          \/ forwardDial(c)
          \/ forwardClose(c, 1)
    /\ UNCHANGED <<picks, mainVars>>

StickyOnDNSUpdate ==
    \E ips \in StickyLookups :
        /\ now < nextSweep
        /\ OnDNSUpdate("p1", ips)
        /\ UNCHANGED <<roundRobinIndex, connVars, resolverVars,
                       affinityVars, picks, mainVars>>

\* pool.SetWeights with the weights --backend-weights gives for the host:
\* smain calls it once the probe of the pool is started and before it opens
\* the listeners.
StickySetWeights ==
    /\ \A c \in ConnIds : conns[c].pc = "idle"
    /\ SetWeights("p1", [ip \in {"10.0.0.1"} |-> 3])
    /\ UNCHANGED <<backends, backendList, roundRobinIndex, gen, now,
                   connVars, resolverVars, affinityVars, picks, mainVars>>

StickyCleanup ==
    /\ cleanup
    /\ UNCHANGED <<poolVars, now, connVars, resolverVars, picks, mainVars>>

StickyClock ==
    /\ AffinityTick
    /\ UNCHANGED <<poolVars, connVars, resolverVars, picks, mainVars>>

NextSticky ==
    \/ StickyAccept
    \/ StickyForward
    \/ StickyOnDNSUpdate
    \/ StickySetWeights
    \/ StickyCleanup
    \/ StickyClock

SpecSticky == Init /\ [][NextSticky]_vars

\* ------------------------------------------------- affinity selection claims

\* Connection c is established, came from source src over a listener with
\* affinity, and its backend is still the pool's Backend for its IP.
OpenTo(c, src) ==
    /\ conns[c].pc = "copy"
    /\ conns[c].m.affinity
    /\ conns[c].src = src
    /\ GetBackend(conns[c].m.pool, heap[conns[c].backend].IP) = conns[c].backend

\* C12: while a connection from source s to backend b is open and b is in the
\* pool, a new selection for s over a listener with affinity returns b, however
\* long the connection has been open.
BoundWhileConnected ==
    [][\A c \in ConnIds :
          (/\ conns[c].pc = "select"
           /\ conns'[c].pc = "connect"
           /\ conns[c].m.affinity
           /\ conns[c].src # "") =>
              \A c2 \in ConnIds \ {c} :
                  OpenTo(c2, conns[c].src) =>
                      conns'[c].backend = conns[c2].backend
      ]_vars

\* Connection c is about to call Select with an affinity map and a source
\* address.
SelectsWithAffinity(c) ==
    /\ conns[c].pc = "select"
    /\ conns[c].m.affinity
    /\ conns[c].src # ""

\* The source of connection c is bound, by a live entry, to an address that
\* is a member of the pool of c.
BoundInPool(c) ==
    /\ Get(entries, conns[c].src, now).found
    /\ GetBackend(conns[c].m.pool, Get(entries, conns[c].src, now).ip) # Nil

\* C13: with an affinity map, a non-empty source and a live binding to a
\* member of the pool, Select of every algorithm returns the pool's backend
\* for the bound address, whatever the counters and weights are.
AffinityHitBypassesAlgorithm ==
    [][\A c \in ConnIds :
          (SelectsWithAffinity(c) /\ BoundInPool(c) /\ conns'[c] # conns[c]) =>
              /\ conns'[c].pc = "connect"
              /\ conns'[c].backend =
                    backends[conns[c].m.pool][entries[conns[c].src].backendIP]
              /\ heap[conns'[c].backend].IP = entries[conns[c].src].backendIP
      ]_vars

\* The round-robin listener has given c2 the backend that c1 is connected to,
\* and the cursor of the pool has never been advanced.
AffinityHitSkipsRoundRobin ==
    /\ conns["c1"].pc = "copy"
    /\ conns["c2"].pc = "connect"
    /\ conns["c2"].m.algorithm = "round-robin"
    /\ conns["c2"].m.affinity
    /\ conns["c2"].backend = conns["c1"].backend
    /\ roundRobinIndex["p1"] = 0

\* C14: when Select runs the algorithm with an affinity map and a non-empty
\* source, Get(source) right after the call yields the address of the backend
\* returned; without a map or with an empty source Select leaves every entry
\* as it was.
AlgorithmChoiceIsRecorded ==
    [][\A c \in ConnIds :
          (conns[c].pc = "select" /\ conns'[c] # conns[c]) =>
              /\ (SelectsWithAffinity(c) /\ ~BoundInPool(c)
                    /\ conns'[c].pc = "connect") =>
                      /\ Get(entries', conns[c].src, now').found
                      /\ Get(entries', conns[c].src, now').ip =
                            heap'[conns'[c].backend].IP
              /\ ~SelectsWithAffinity(c) => entries' = entries
      ]_vars

\* c1 is still connected to the backend its source was bound to; the binding
\* has expired and the selection for c2 has just bound the source to the
\* other backend.
ReboundAfterExpiry ==
    /\ conns["c1"].pc = "copy"
    /\ conns["c2"].pc = "connect"
    /\ conns["c2"].m.affinity
    /\ conns["c2"].src = conns["c1"].src
    /\ conns["c2"].backend # conns["c1"].backend
    /\ "192.0.2.1" \in DOMAIN entries
    /\ entries["192.0.2.1"].backendIP = heap[conns["c2"].backend].IP
    /\ hist["192.0.2.1"].setAt = now
    /\ now > TTL

\* The pool has no backend.
EmptyPool(p) ==
    /\ \A ip \in IPs : backends[p][ip] = Nil
    /\ backendList[p] = <<>>

\* C15: on a pool without backends Select of every algorithm fails with
\* ErrNoBackends and changes no affinity entry, no cursor and no counter, and
\* forward returns without OnConnect and without dialing.
EmptyPoolSelectFailsCleanly ==
    [][\A c \in ConnIds :
          (/\ conns[c].pc = "select"
           /\ EmptyPool(conns[c].m.pool)
           /\ conns'[c] # conns[c]) =>
              /\ conns'[c] = DoneConn
              /\ lastExit' = Exit("tcp", "nobackends", 0, 0)
              /\ UNCHANGED <<entries, roundRobinIndex, heap, backends,
                             backendList>>
      ]_vars

\* A client of an affinity listener was turned away on the empty pool while
\* its source still has a live binding, and the cursor is where it started.
TurnedAwayWithBinding ==
    /\ EmptyPool("p1")
    /\ conns["c2"].pc = "done"
    /\ lastExit = Exit("tcp", "nobackends", 0, 0)
    /\ Get(entries, "192.0.2.1", now).found
    /\ roundRobinIndex["p1"] = 0

\* ------------- listeners without affinity on a host without --backend-weights

\* What the lookups of the host return over time: three backends, or two.
BalanceLookups ==
    {<<"10.0.0.1", "10.0.0.2", "10.0.0.3">>, <<"10.0.0.1", "10.0.0.2">>}

\* The connection slots are taken in the order c1, c2, c3.
NextSlot(c) ==
    /\ c = "c2" => conns["c1"].pc # "idle"
    /\ c = "c3" => conns["c2"].pc # "idle"

BalanceAccept(m) ==
    /\ \E c \in ConnIds : NextSlot(c) /\ Accept(c, m, "192.0.2.1", "")
    /\ UNCHANGED <<picks, mainVars>>

\* selector.Select of a connection; a round-robin result is noted with the
\* snapshot it was taken from.
BalanceSelect ==
    \E c \in ConnIds :
        /\ forwardSelect(c)
        /\ picks' = IF conns[c].m.algorithm = "round-robin"
                       /\ conns'[c].pc = "connect"
                    THEN Append(picks,
                                [list |-> GetBackends(conns[c].m.pool),
                                 backend |-> conns'[c].backend])
                    ELSE picks
        /\ UNCHANGED mainVars

BalanceForward ==
    /\ \E c \in ConnIds :
          \/ forwardConnect(c)
          \/ forwardDial(c)
          \/ forwardClose(c, 1)
    /\ UNCHANGED <<picks, mainVars>>

BalanceOnDNSUpdate ==
    \E ips \in BalanceLookups :
        /\ OnDNSUpdate("p1", ips)
        /\ UNCHANGED <<roundRobinIndex, connVars, resolverVars, affinityVars,
                       picks, mainVars>>

\* The round-robin listener.
RotateAccept ==
    BalanceAccept(Mapping("p1", "tcp", "round-robin", FALSE, FALSE, FALSE))

NextRotate ==
    \/ RotateAccept
    \/ BalanceSelect
    \/ BalanceForward
    \/ BalanceOnDNSUpdate

SpecRotate == Init /\ [][NextRotate]_vars

\* The least-connection listener.
LeastAccept ==
    BalanceAccept(Mapping("p1", "tcp", "least-connection", FALSE, FALSE, FALSE))

NextLeast ==
    \/ LeastAccept
    \/ BalanceSelect
    \/ BalanceForward
    \/ BalanceOnDNSUpdate

SpecLeast == Init /\ [][NextLeast]_vars

\* Clients of the least-connection listener that arrive one after another
\* (the one before has passed OnConnect) and stay connected.
HeldAccept ==
    /\ \A d \in ConnIds : conns[d].pc \in {"idle", "dial", "copy"}
    /\ LeastAccept

HeldForward ==
    /\ \E c \in ConnIds : forwardConnect(c) \/ forwardDial(c)
    /\ UNCHANGED <<picks, mainVars>>

\* The probe rounds before the first client, and those that find the
\* membership as it is.
HeldOnDNSUpdate ==
    \E ips \in BalanceLookups :
        /\ \/ \A d \in ConnIds : conns[d].pc = "idle"
           \/ Range(ips) = {ip \in IPs : checkIp("p1", ip)}
        /\ OnDNSUpdate("p1", ips)
        /\ UNCHANGED <<roundRobinIndex, connVars, resolverVars, affinityVars,
                       picks, mainVars>>

NextHeld ==
    \/ HeldAccept
    \/ BalanceSelect
    \/ HeldForward
    \/ HeldOnDNSUpdate

SpecHeld == Init /\ [][NextHeld]_vars

\* The weighted-random listener, which is implicit on a host without
\* --backend-weights.
ImplicitAccept ==
    BalanceAccept(Mapping("p1", "tcp", "weighted-random", FALSE, FALSE, FALSE))

NextImplicit ==
    \/ ImplicitAccept
    \/ BalanceSelect
    \/ BalanceForward
    \/ BalanceOnDNSUpdate

SpecImplicit == Init /\ [][NextImplicit]_vars

\* ------------------------- the weighted-random listener, --backend-weights

\* What --backend-weights can give for the host: parseBackendWeights takes
\* every value strconv.Atoi accepts.
ExplicitWeightMaps ==
    {[ip \in IPs |-> 0],
     ("10.0.0.1" :> 0 @@ "10.0.0.2" :> 2),
     ("10.0.0.1" :> (0 - 1))}

ExplicitAccept ==
    BalanceAccept(Mapping("p1", "tcp", "weighted-random", TRUE, FALSE, FALSE))

\* pool.SetWeights: smain calls it once the probe of the pool is started and
\* before it opens the listeners.
ExplicitSetWeights ==
    \E w \in ExplicitWeightMaps :
        /\ \A c \in ConnIds : conns[c].pc = "idle"
        /\ SetWeights("p1", w)
        /\ UNCHANGED <<backends, backendList, roundRobinIndex, gen, now,
                       connVars, resolverVars, affinityVars, picks, mainVars>>

NextExplicit ==
    \/ ExplicitAccept
    \/ ExplicitSetWeights
    \/ BalanceSelect
    \/ BalanceForward
    \/ BalanceOnDNSUpdate

SpecExplicit == Init /\ [][NextExplicit]_vars

\* ------------------------------------------------------- round-robin claims

\* The selections i..j were all made on the same snapshot.
SameList(i, j) == \A k \in i..j : picks[k].list = picks[i].list

\* C16: on a snapshot of n backends that does not change, any n consecutive
\* round-robin selections return each backend exactly once, the selection
\* after them returns the first of them again, and two consecutive selections
\* differ when n > 1.
RoundRobinRotates ==
    \A i \in DOMAIN picks :
        LET l == picks[i].list
            n == Len(l)
        IN  /\ picks[i].backend \in Range(l)
            /\ Cardinality(Range(l)) = n
            /\ (i + n - 1 \in DOMAIN picks /\ SameList(i, i + n - 1)) =>
                  /\ {picks[k].backend : k \in i..(i + n - 1)} = Range(l)
                  /\ \A b \in Range(l) :
                        Cardinality({k \in i..(i + n - 1) :
                                       picks[k].backend = b}) = 1
            /\ (i + n \in DOMAIN picks /\ SameList(i, i + n)) =>
                  picks[i + n].backend = picks[i].backend
            /\ (n > 1 /\ i + 1 \in DOMAIN picks /\ SameList(i, i + 1)) =>
                  picks[i + 1].backend # picks[i].backend

\* Three selections on the same snapshot of two backends: the third returns
\* the backend of the first.
RotationOfTwo ==
    /\ Len(picks) = 3
    /\ SameList(1, 3)
    /\ Len(picks[1].list) = 2
    /\ picks[3].backend = picks[1].backend
    /\ picks[2].backend # picks[1].backend

\* --------------------------------------------------- least-connection claims

\* The backends of the snapshot of pool p that no other backend of it
\* undercuts in ActiveConns.
Idlest(p) ==
    {b \in Range(GetBackends(p)) :
        \A b2 \in Range(GetBackends(p)) :
            heap[b].ActiveConns <= heap[b2].ActiveConns}

\* The backends Select can return to connection c in the current state.
Selectable(c) ==
    {o.backend : o \in Select(conns[c].m, conns[c].m.pool, conns[c].src)}

OpenOn(b) ==
    {c \in ConnIds : conns[c].pc \in {"dial", "copy"} /\ conns[c].backend = b}

\* C18: with least-connection, fixed membership and connections opened one
\* after another and held open, each new connection goes to a backend with the
\* fewest open connections, the ActiveConns of two backends never differ by
\* more than 1, and with three backends the third connection goes to the
\* backend the first two have left free.
HeldConnectionsSpreadEvenly ==
    LET l == Range(GetBackends("p1")) IN
    /\ \A b \in l : heap[b].ActiveConns = Cardinality(OpenOn(b))
    /\ \A c \in ConnIds : conns[c].pc = "connect" =>
            \A b \in l :
                Cardinality(OpenOn(conns[c].backend)) <= Cardinality(OpenOn(b))
    /\ \A b1, b2 \in l : heap[b1].ActiveConns - heap[b2].ActiveConns <= 1
    /\ (Cardinality(l) = 3
            /\ \A e \in ConnIds : InFlight(e) /\ conns[e].pc # "select") =>
            \A c, d \in ConnIds : c # d => conns[c].backend # conns[d].backend

\* Three connections are established on three backends, one on each.
ThirdOnThirdBackend ==
    /\ Len(GetBackends("p1")) = 3
    /\ \A c \in ConnIds : conns[c].pc = "copy"
    /\ \A b \in Range(GetBackends("p1")) : heap[b].ActiveConns = 1

\* ---------------------------------------------------- weighted-random claims

\* C20: in implicit mode the weight of a backend is (M - ActiveConns + 1) *
\* Weight with M the largest ActiveConns of the snapshot; with the default
\* weights it is at least 1, so every backend of the snapshot can be returned,
\* and a backend with fewer connections has a strictly larger weight.
ImplicitWeightsInvertLoad ==
    LET l == GetBackends("p1")
        w == Weights(l, FALSE)
        active(i) == heap[l[i]].ActiveConns
    IN  l # <<>> =>
          \E M \in {active(i) : i \in DOMAIN l} :
              /\ \A i \in DOMAIN l : active(i) <= M
              /\ \A i \in DOMAIN l : w[i] = (M - active(i) + 1) * heap[l[i]].Weight
              /\ (\A i \in DOMAIN l : heap[l[i]].Weight = DefaultWeight) =>
                    /\ \A i \in DOMAIN l : w[i] >= 1
                    /\ \A i, j \in DOMAIN l : active(i) < active(j) => w[i] > w[j]
                    /\ \A c \in ConnIds :
                          (conns[c].pc = "select"
                             /\ conns[c].m.algorithm = "weighted-random"
                             /\ ~conns[c].m.useExplicitWeights) =>
                              Selectable(c) = Range(l)

\* A connection has just been given the backend that already has two
\* connections while another backend of the snapshot has none.
BusiestStillChosen ==
    \E c \in ConnIds :
        /\ conns[c].pc = "connect"
        /\ conns[c].m.algorithm = "weighted-random"
        /\ conns[c].backend \in Range(GetBackends("p1"))
        /\ heap[conns[c].backend].ActiveConns = 2
        /\ \E b \in Range(GetBackends("p1")) : heap[b].ActiveConns = 0

\* C19: in explicit mode, on a non-empty snapshot, Select can return exactly
\* the backends with Weight > 0 when the weights of the snapshot add up to
\* more than 0, and any backend of the snapshot when they add up to 0.
ExplicitWeightsDecide ==
    \A c \in ConnIds :
        LET l == GetBackends(conns[c].m.pool)
            total == SumTo([i \in DOMAIN l |-> heap[l[i]].Weight], Len(l))
        IN  (/\ conns[c].pc = "select"
             /\ conns[c].m.algorithm = "weighted-random"
             /\ conns[c].m.useExplicitWeights
             /\ l # <<>>) =>
                /\ total > 0 =>
                      Selectable(c) = {b \in Range(l) : heap[b].Weight > 0}
                /\ total = 0 => Selectable(c) = Range(l)

\* ------------------------------- startup of a host with --backend-weights

\* --backend-weights for the host.
ConfiguredWeights == [ip \in ProbedIPs |-> 3]

\* smain has created the pool and started its probe (go dnsProbe()).
InitStartup ==
    /\ InitPools /\ InitConns /\ InitResolver /\ InitAffinity /\ InitPicks
    /\ smain = "probe" /\ InitPorts /\ InitSetup /\ InitSteps

\* What the lookups of the host return over time.
StartupLookups == {<<"10.0.0.1">>, <<"10.0.0.1", "10.0.0.2">>, <<>>}

\* smain applies the configured weights and goes on to open the listeners.
StartupSetWeights ==
    /\ smain = "probe"
    /\ SetWeights("p1", ConfiguredWeights)
    /\ smain' = "listen"
    /\ UNCHANGED <<backends, backendList, roundRobinIndex, gen, now,
                   connVars, resolverVars, affinityVars, picks, portStr, parsed,
                   args, setup, stepVars>>

\* A round of the probe goroutine, before or after smain has gone on.
StartupOnDNSUpdate ==
    \E ips \in StartupLookups :
        /\ OnDNSUpdate("p1", ips)
        /\ UNCHANGED <<roundRobinIndex, connVars, resolverVars, affinityVars,
                       picks, mainVars>>

StartupAccept ==
    /\ smain = "listen"
    /\ ExplicitAccept

NextStartup ==
    \/ StartupSetWeights
    \/ StartupOnDNSUpdate
    \/ StartupAccept
    \/ BalanceSelect
    \/ BalanceForward

SpecStartup == InitStartup /\ [][NextStartup]_vars

\* C21: once smain has applied --backend-weights, every backend of the pool
\* whose IP has a configured weight carries that weight, whether its IP was
\* found before or after the weights were applied.
ConfiguredWeightsHold ==
    smain = "listen" =>
        \A ip \in DOMAIN ConfiguredWeights :
            checkIp("p1", ip) =>
                heap[GetBackend("p1", ip)].Weight = ConfiguredWeights[ip]


\* ------------------------------------------ HTTP requests, step by step
\* One backend host behind two HTTP listeners, one of them with the affinity
\* option; both balance round-robin.
HttpMappings ==
    {Mapping("p1", "http", "round-robin", FALSE, a, FALSE) : a \in BOOLEAN}

\* The proxy-affinity cookie of a request: none, or an address.
HttpCookies == {"", "10.0.0.1", "10.0.0.2"}

HttpSlots == {"c1", "c2"}

HttpAccept ==
    /\ \E c \in HttpSlots, m \in HttpMappings, cookie \in HttpCookies :
          NextSlot(c) /\ Accept(c, m, "192.0.2.1", cookie)
    /\ UNCHANGED <<picks, mainVars>>

HttpSelect ==
    /\ \E c \in HttpSlots :
          \/ handleAffinity(c)
          \/ handleCookie(c)
          \/ handleCookieGet(c)
          \/ handleAlgorithm(c)
    /\ UNCHANGED <<picks, mainVars>>

HttpServe ==
    /\ \E c \in HttpSlots :
          \/ handleConnect(c)
          \/ handleReturn(c)
          \/ handleProxyError(c)
    /\ UNCHANGED <<picks, mainVars>>

HttpOnDNSUpdate ==
    \E ips \in StickyLookups :
        /\ OnDNSUpdate("p1", ips)
        /\ UNCHANGED <<roundRobinIndex, connVars, resolverVars, affinityVars,
                       picks, mainVars>>

NextHttp ==
    \/ HttpAccept
    \/ HttpSelect
    \/ HttpServe
    \/ HttpOnDNSUpdate

SpecHttp == Init /\ [][NextHttp]_vars


\* The request of slot c takes the step of its handler that starts at pc.
HttpStep(c, pc) == conns[c].pc = pc /\ conns'[c] # conns[c]

\* The member of the pool that the affinity entry of the request's source
\* names, Nil when affinity is off, the entry is missing or expired, or the
\* address is no member.
BoundMember(c) ==
    LET k == conns[c]
        g == IF k.m.affinity /\ k.src # "" THEN Get(entries, k.src, now) ELSE Miss
    IN  IF g.found THEN GetBackend(k.m.pool, g.ip) ELSE Nil

\* The member of the pool that the cookie of the request names, or Nil.
CookieMember(c) ==
    IF conns[c].cookie = "" THEN Nil ELSE GetBackend(conns[c].m.pool, conns[c].cookie)

\* The handler has settled on backend b without running the algorithm.
SettledOn(c, b) ==
    /\ conns'[c].pc = "connect"
    /\ conns'[c].backend = b
    /\ UNCHANGED <<roundRobinIndex, entries>>

\* C22: an HTTP request takes the backend of a live IP-affinity entry that
\* names a pool member, whatever its cookie; failing that, the member its
\* cookie names, without running the algorithm (cursor and entries untouched);
\* and it comes to the algorithm only when neither names a member.
HttpPriority ==
    [][\A c \in HttpSlots :
          /\ HttpStep(c, "select") =>
                IF BoundMember(c) # Nil
                THEN SettledOn(c, BoundMember(c))
                ELSE conns'[c].pc = "cookie" /\ UNCHANGED <<roundRobinIndex, entries>>
          /\ HttpStep(c, "cookie") =>
                /\ conns'[c].pc = IF CookieMember(c) # Nil THEN "cookieget"
                                                          ELSE "algorithm"
                /\ UNCHANGED <<roundRobinIndex, entries>>
          /\ HttpStep(c, "cookieget") =>
                IF CookieMember(c) # Nil
                THEN SettledOn(c, CookieMember(c))
                ELSE conns'[c].pc = "algorithm" /\ UNCHANGED <<roundRobinIndex, entries>>
          /\ HttpStep(c, "algorithm") =>
                \E o \in Select(conns[c].m, conns[c].m.pool, conns[c].src) :
                    /\ roundRobinIndex' = [roundRobinIndex EXCEPT !["p1"] = o.rr]
                    /\ entries' = o.e
                    /\ o.backend # Nil =>
                          conns'[c].pc = "connect" /\ conns'[c].backend = o.backend
      ]_vars

\* C22 witness: a request that carries the cookie of one member has been given
\* the other member, to which its source is bound.
BindingBeatsCookie ==
    \E c \in HttpSlots :
        /\ conns[c].pc = "connect" /\ conns[c].m.affinity
        /\ conns[c].cookie = "10.0.0.2"
        /\ conns[c].backend # Nil /\ heap[conns[c].backend].IP = "10.0.0.1"
        /\ BoundMember(c) = conns[c].backend
        /\ CookieMember(c) # Nil


\* ------------------------ HTTP requests of one source, fixed membership
\* The listener with the affinity option; a request arrives when no other
\* request is choosing its backend.
FixedAccept ==
    /\ \A d \in HttpSlots : conns[d].pc \in {"idle", "serve", "done"}
    /\ \E c \in HttpSlots, cookie \in HttpCookies :
          /\ NextSlot(c)
          /\ Accept(c, Mapping("p1", "http", "round-robin", FALSE, TRUE, FALSE),
                    "192.0.2.1", cookie)
    /\ UNCHANGED <<picks, mainVars>>

NextHttpFixed ==
    \/ FixedAccept
    \/ HttpSelect
    \/ HttpServe
    \/ HeldOnDNSUpdate

SpecHttpFixed == Init /\ [][NextHttpFixed]_vars

\* C23: with the affinity option, a membership that no longer changes and a
\* TTL that does not elapse, the requests of one source that have been given a
\* backend have all been given the same one, whatever cookies they carry.
SameSourceSameBackend ==
    \A c, d \in HttpSlots :
        (/\ conns[c].pc \in {"connect", "serve"}
         /\ conns[d].pc \in {"connect", "serve"}
         /\ conns[c].m.affinity /\ conns[d].m.affinity
         /\ conns[c].src = conns[d].src)
        => conns[c].backend = conns[d].backend


\* --------------------------------- HTTP requests of one cookie session
\* The listener without the affinity option; a request arrives when no other
\* request is choosing its backend, so that it can carry the cookie a request
\* before it was answered with.
CookieAccept ==
    /\ \A d \in HttpSlots : conns[d].pc \in {"idle", "serve", "done"}
    /\ \E c \in HttpSlots, cookie \in HttpCookies :
          /\ NextSlot(c)
          /\ Accept(c, Mapping("p1", "http", "round-robin", FALSE, FALSE, FALSE),
                    "192.0.2.1", cookie)
    /\ UNCHANGED <<picks, mainVars>>

NextHttpCookie ==
    \/ CookieAccept
    \/ HttpSelect
    \/ HttpServe
    \/ HttpOnDNSUpdate

SpecHttpCookie == Init /\ [][NextHttpCookie]_vars

\* Request c carries the cookie that request d, accepted before it, was
\* answered with, and the backend of d is still the pool member of that address.
CarriesCookieOf(c, d) ==
    /\ c # d
    /\ conns[d].pc = "serve"
    /\ conns[c].pc \in {"select", "cookie", "cookieget", "algorithm"}
    /\ ~conns[c].m.affinity
    /\ conns[c].cookie = conns[d].setCookie
    /\ GetBackend(conns[c].m.pool, conns[c].cookie) = conns[d].backend

\* C24: a request that is proxied is answered with Set-Cookie proxy-affinity =
\* the IP of its backend; and a later request carrying that cookie, on a
\* listener without IP affinity, ends its selection on that same backend while
\* the address has stayed in the pool.
CookieSessionSticks ==
    [][\A c \in HttpSlots :
          /\ conns'[c].pc = "serve" =>
                conns'[c].setCookie = heap'[conns'[c].backend].IP
          /\ \A d \in HttpSlots :
                (/\ CarriesCookieOf(c, d)
                 /\ conns'[c].pc \in {"connect", "done"})
                => /\ conns'[c].pc = "connect"
                   /\ conns'[c].backend = conns[d].backend
                   /\ UNCHANGED roundRobinIndex
      ]_vars

\* C24 witness: the first request went through the algorithm and was answered
\* with the cookie of 10.0.0.2; the second one carried it and has the same
\* backend, the cursor still where the first left it.
SecondFollowsCookie ==
    /\ conns["c1"].pc = "serve" /\ conns["c1"].setCookie = "10.0.0.2"
    /\ conns["c2"].pc = "connect" /\ conns["c2"].cookie = "10.0.0.2"
    /\ ~conns["c2"].m.affinity
    /\ conns["c2"].backend = conns["c1"].backend
    /\ roundRobinIndex["p1"] = 1


\* The affinity entry of the request's source is live and names an address
\* that is no member of the pool.
StaleEntry(c) ==
    LET k == conns[c]
        g == IF k.m.affinity /\ k.src # "" THEN Get(entries, k.src, now) ELSE Miss
    IN  g.found /\ ~checkIp(k.m.pool, g.ip)

\* The cookie of the request names an address that is no member of the pool.
StaleCookie(c) == conns[c].cookie # "" /\ ~checkIp(conns[c].m.pool, conns[c].cookie)

\* The selection of request c ends in this step with a backend.
Settles(c) ==
    /\ conns[c].pc \in {"select", "cookieget", "algorithm"}
    /\ conns'[c].pc = "connect"

\* After the step the live entry of the request's source names the backend of
\* the request.
EntryNamesBackend(c) ==
    LET g == Get(entries', conns[c].src, now') IN
    g.found /\ g.ip = heap'[conns'[c].backend].IP

UnservedRequestGets503 ==
    (lastExit.mode = "http" /\ lastExit.exit # "served") => lastExit.exit = "503"


\* ------------------------------------ TCP connections, from accept to return
\* One backend host behind three TCP listeners with the affinity option:
\* proxy-client=v1, proxy-client=v2 and no client PROXY protocol
\* (parseProxyProtocolConfig leaves version 0).
ForwardMappings ==
    {Mapping("p1", "tcp", "round-robin", FALSE, TRUE, v # 0)
        @@ [ClientVersion |-> v] : v \in 0..2}

ForwardSlots == {"c1", "c2"}

ForwardLookups == {<<"10.0.0.1", "10.0.0.2">>, <<>>}

ForwardAccept ==
    /\ \E c \in ForwardSlots, m \in ForwardMappings :
          NextSlot(c) /\ Accept(c, m, "192.0.2.1", "")
    /\ UNCHANGED <<picks, mainVars>>

ForwardBegin ==
    /\ \E c \in ForwardSlots :
          \/ forwardSelect(c)
          \/ forwardConnect(c)
          \/ forwardDialed(c)
          \/ forwardDialFail(c)
    /\ UNCHANGED <<picks, mainVars>>

ForwardHeader ==
    /\ \E c \in ForwardSlots :
          \/ forwardHeader(c)
          \/ forwardHeaderWriteFail(c)
          \/ forwardReturn(c)
    /\ UNCHANGED <<picks, mainVars>>

\* What the peers decide: a byte of the client, the end of a stream.
ForwardCopy ==
    /\ \E c \in ForwardSlots :
          \/ copyPayload(c)
          \/ \E t \in CopyTasks : copyEnd(c, t)
    /\ UNCHANGED <<picks, mainVars>>

\* What the program does on its own once an endpoint is closed.
ForwardAbort(c) ==
    /\ \E t \in CopyTasks : copyAbort(c, t)
    /\ UNCHANGED <<picks, mainVars>>

ForwardWait(c) ==
    /\ forwardWait(c)
    /\ UNCHANGED <<picks, mainVars>>

ForwardOnDNSUpdate ==
    \E ips \in ForwardLookups :
        /\ OnDNSUpdate("p1", ips)
        /\ UNCHANGED <<roundRobinIndex, connVars, resolverVars, affinityVars,
                       picks, mainVars>>

NextForward ==
    \/ ForwardAccept
    \/ ForwardBegin
    \/ ForwardHeader
    \/ ForwardCopy
    \/ \E c \in ForwardSlots : ForwardAbort(c)
    \/ \E c \in ForwardSlots : ForwardWait(c)
    \/ ForwardOnDNSUpdate

SpecForward == Init /\ [][NextForward]_vars

\* The copy phase on its own: the listener without the client PROXY protocol,
\* dials that succeed.
CopyAccept ==
    /\ \E c \in ForwardSlots :
          /\ NextSlot(c)
          /\ Accept(c, Mapping("p1", "tcp", "round-robin", FALSE, TRUE, FALSE)
                           @@ [ClientVersion |-> 0], "192.0.2.1", "")
    /\ UNCHANGED <<picks, mainVars>>

CopyBegin ==
    /\ \E c \in ForwardSlots :
          \/ forwardSelect(c)
          \/ forwardConnect(c)
          \/ forwardDialed(c)
    /\ UNCHANGED <<picks, mainVars>>

NextCopy ==
    \/ CopyAccept
    \/ CopyBegin
    \/ ForwardCopy
    \/ \E c \in ForwardSlots : ForwardAbort(c)
    \/ \E c \in ForwardSlots : ForwardWait(c)
    \/ ForwardOnDNSUpdate

\* A goroutine that can run does run: a copy whose read end is closed
\* returns, and wg.Wait returns once both copies are done.
SpecCopyFair ==
    /\ Init
    /\ [][NextCopy]_vars
    /\ \A c \in ForwardSlots :
          WF_vars(ForwardAbort(c)) /\ WF_vars(ForwardWait(c))


\* The positions of the wire of connection record k that hold client bytes.
PayloadAt(k) == {i \in DOMAIN k.wire : k.wire[i] = Payload}

\* C27: on a listener with the client PROXY protocol, whatever has been
\* written to the backend starts with one PROXY header of the configured
\* version (1 or 2), from the client's address to the connection's local
\* address, before any client byte; and after a failed header write forward is
\* returning with no client byte written and no copy task started.
HeaderComesFirst ==
    \A c \in ForwardSlots :
        LET k == conns[c] IN
        k.m.ClientEnabled =>
            /\ k.m.ClientVersion \in {1, 2}
            /\ k.pc = "copy" => Len(k.wire) >= 1
            /\ (k.pc = "copy" \/ PayloadAt(k) # {}) =>
                  /\ k.wire[1].Version = k.m.ClientVersion
                  /\ k.wire[1].Command = "PROXY"
                  /\ k.wire[1].SourceAddr = k.src
                  /\ k.wire[1].DestinationAddr = LocalAddr
                  /\ PayloadAt(k) = 2..Len(k.wire)
            /\ k.pc = "return" => PayloadAt(k) = {} /\ k.tasks = {}
            /\ k.pc \in {"select", "connect", "dial", "header"} => k.wire = <<>>

\* C27 witness: on the proxy-client=v2 listener a client byte has gone to the
\* backend behind the version 2 header.
PayloadBehindHeaderV2 ==
    \E c \in ForwardSlots :
        /\ conns[c].pc = "copy" /\ conns[c].m.ClientEnabled
        /\ conns[c].m.ClientVersion = 2
        /\ Len(conns[c].wire) = 2
        /\ conns[c].wire[1].Version = 2
        /\ conns[c].wire[2] = Payload


\* A copy task of connection c has ended, or one of its endpoints is closed,
\* and forward has not returned.
TornDown(c) ==
    /\ conns[c].pc = "copy"
    /\ conns[c].tasks # CopyTasks \/ conns[c].closed # {}

\* C29: a copy task that ends leaves both endpoints closed; forward returns
\* from the copy phase only when both tasks are done, and then runs
\* OnDisconnect once, touches the affinity entry of the source and takes the
\* connection off opened; and once a copy has ended or an endpoint is closed,
\* forward does return.
CopyEndTearsDown ==
    /\ [][\A c \in ForwardSlots :
             /\ (conns[c].pc = "copy" /\ conns'[c].tasks # conns[c].tasks) =>
                   conns'[c].closed = {"local", "remote"}
             /\ (conns[c].pc = "copy" /\ conns'[c].pc # "copy") =>
                   /\ conns[c].tasks = {}
                   /\ conns'[c].pc = "done"
                   /\ opened' = opened - 1
                   /\ lastExit' = Exit("tcp", "closed", 1, 1)
                   /\ entries' = Touch(entries, conns[c].src, now)
        ]_vars
    /\ \A c \in ForwardSlots : TornDown(c) ~> (conns[c].pc = "done")

\* C29 witness: the client has ended its stream, the copy to the backend is
\* done and both endpoints are closed, while the copy from the backend has
\* yet to notice.
OneCopyEnded ==
    \E c \in ForwardSlots :
        /\ conns[c].pc = "copy"
        /\ conns[c].tasks = {"down"}
        /\ conns[c].closed = {"local", "remote"}


\* The connections that call pool.OnConnect on backend b in this step.
Connecting(b) ==
    {d \in ForwardSlots : /\ conns[d].pc = "connect" /\ conns'[d].pc = "dial"
                          /\ conns[d].backend = b}

\* C28: a TCP connection selects once and dials once: it comes to the
\* selection only from the accept and to the dial only from its one OnConnect;
\* a failed dial ends forward at once, OnConnect and OnDisconnect called once
\* each; and TotalConns of a backend grows only by one per connection that
\* calls OnConnect on it.
OneSelectionOneDial ==
    [][/\ \A c \in ForwardSlots :
             /\ (conns'[c].pc = "select" /\ conns[c].pc # "select") =>
                   conns[c].pc = "idle"
             /\ (conns'[c].pc = "dial" /\ conns[c].pc # "dial") =>
                   conns[c].pc = "connect" /\ conns[c].nConnect = 0
             /\ conns'[c].nConnect <= 1
             /\ (conns[c].pc = "dial" /\ conns'[c].pc \notin {"dial", "header", "copy"}) =>
                   /\ conns'[c].pc = "done"
                   /\ lastExit' = Exit("tcp", "dialfail", 1, 1)
                   /\ UNCHANGED roundRobinIndex
       /\ \A b \in (DOMAIN heap) \cap (DOMAIN heap') :
             heap'[b].TotalConns = heap[b].TotalConns + Cardinality(Connecting(b))
      ]_vars

\* C28 witness: the only connection so far has failed to dial its backend and
\* is over; that backend has one connection in total and none active.
DialFailedOnce ==
    /\ lastExit = Exit("tcp", "dialfail", 1, 1)
    /\ conns["c1"].pc = "done" /\ conns["c2"].pc = "idle"
    /\ roundRobinIndex["p1"] = 1
    /\ \E b \in DOMAIN heap : heap[b].TotalConns = 1 /\ heap[b].ActiveConns = 0


\* ------------------------------------------------------------- parsePortRange
\* Strings are sequences of characters.
Chars == {"0", "1", "2", "-", "+", "x"}

Digits == <<"0", "1", "2", "3", "4", "5", "6", "7", "8", "9">>

IsDigit(ch) == \E i \in DOMAIN Digits : Digits[i] = ch

DigitVal(ch) == (CHOOSE i \in DOMAIN Digits : Digits[i] = ch) - 1

\* The value of a sequence of digits.
RECURSIVE Num(_)
Num(d) ==
    IF d = <<>> THEN 0
    ELSE Num(SubSeq(d, 1, Len(d) - 1)) * 10 + DigitVal(d[Len(d)])

\* strconv.Atoi: an optional sign, then at least one digit and only digits
\* (an expression of MaxLen characters cannot overflow an int).
Atoi(str) ==
    LET signed == str # <<>> /\ str[1] \in {"+", "-"}
        body == IF signed THEN Tail(str) ELSE str
    IN  IF body = <<>> \/ \E i \in DOMAIN body : ~IsDigit(body[i])
        THEN [n |-> 0, err |-> TRUE]
        ELSE [n |-> IF signed /\ str[1] = "-" THEN 0 - Num(body) ELSE Num(body),
              err |-> FALSE]

\* strconv.Itoa.
RECURSIVE Itoa(_)
Itoa(n) ==
    IF n < 0 THEN <<"-">> \o Itoa(0 - n)
    ELSE IF n < 10 THEN <<Digits[n + 1]>>
    ELSE Itoa(n \div 10) \o <<Digits[(n % 10) + 1]>>

\* strings.Contains(str, "-").
ContainsDash(str) == \E i \in DOMAIN str : str[i] = "-"

\* strings.SplitN(str, "-", 2) of a string that contains a dash: what stands
\* before the first dash and what stands after it.
SplitN(str) ==
    LET i == CHOOSE j \in DOMAIN str :
                 str[j] = "-" /\ \A h \in 1..(j - 1) : str[h] # "-"
    IN  <<SubSeq(str, 1, i - 1), SubSeq(str, i + 1, Len(str))>>

Failed == [ports |-> <<>>, err |-> TRUE, done |-> TRUE]

Ports(l) == [ports |-> l, err |-> FALSE, done |-> TRUE]

\* The loop that leaves out the end port.
Expand_Short(port, port2) ==
    [i \in 1..(port2 - port) |-> Itoa(port + i - 1)]

\* for port := port1; port <= port2; port++ { ports = append(ports, Itoa(port)) }:
\* one round per port from port to port2, each appending.
Expand(port, port2) ==
    [i \in 1..(port2 - port + 1) |-> Itoa(port + i - 1)]

parsePortRange(str) ==
    IF ~ContainsDash(str) THEN Ports(<<str>>)
    ELSE LET parts == SplitN(str)
             port1 == Atoi(parts[1])
             port2 == Atoi(parts[2])
         IN  IF port1.err THEN Failed
             ELSE IF port2.err THEN Failed
             ELSE IF port1.n > port2.n THEN Failed
             ELSE Ports(Expand(port1.n, port2.n))

\* The port expressions tried: every string of up to MaxLen characters.
PortInputs == UNION {[1..n -> Chars] : n \in 0..MaxLen}

InitParse ==
    /\ InitPools /\ InitConns /\ InitResolver /\ InitAffinity /\ InitPicks
    /\ smain = "parse"
    /\ portStr \in PortInputs
    /\ parsed = NotParsed
    /\ InitSetup /\ InitSteps

\* smain calls parsePortRange on the port expression of a mapping.
ParsePorts ==
    /\ ~parsed.done
    /\ parsed' = parsePortRange(portStr)
    /\ UNCHANGED <<poolVars, now, connVars, resolverVars, affinityVars, picks,
                   smain, portStr, args, setup, stepVars>>

NextParse == ParsePorts

SpecParse == InitParse /\ [][NextParse]_vars

\* The number of dashes in a string.
Dashes(str) == Cardinality({i \in DOMAIN str : str[i] = "-"})

Option(name, eq, val) == [name |-> name, eq |-> eq, val |-> val]

\* checkOption: the first option that is name=... or just name.
checkOption(options, name) ==
    LET hits == {i \in DOMAIN options : options[i].name = name} IN
    IF hits = {} THEN [val |-> "", ok |-> FALSE]
    ELSE LET o == options[Min(hits)]
         IN  [val |-> IF o.eq THEN o.val ELSE "", ok |-> TRUE]

parseProxyProtocolOption(value) ==
    IF value = "" THEN [enabled |-> FALSE, version |-> 0, err |-> FALSE]
    ELSE IF value \in {"v1", "1"} THEN [enabled |-> TRUE, version |-> 1, err |-> FALSE]
    ELSE IF value \in {"v2", "2"} THEN [enabled |-> TRUE, version |-> 2, err |-> FALSE]
    ELSE [enabled |-> FALSE, version |-> 0, err |-> TRUE]

ProxyProtocolConfig(se, sv, ce, cv) ==
    [ServerEnabled |-> se, ServerVersion |-> sv,
     ClientEnabled |-> ce, ClientVersion |-> cv]

\* A parser for which the global flags win over the options.
parseProxyProtocolConfig_GlobalFirst(options, globalClient, globalServer) ==
    LET serverOpt == checkOption(options, "proxy-server")
        clientOpt == checkOption(options, "proxy-client")
        server == parseProxyProtocolOption(serverOpt.val)
        client == parseProxyProtocolOption(clientOpt.val)
        se == IF globalServer THEN TRUE ELSE serverOpt.ok /\ server.enabled
        sv == IF globalServer THEN 1 ELSE IF serverOpt.ok THEN server.version ELSE 0
        ce == IF globalClient THEN TRUE ELSE clientOpt.ok /\ client.enabled
        cv == IF globalClient THEN 1 ELSE IF clientOpt.ok THEN client.version ELSE 0
    IN  [config |-> ProxyProtocolConfig(se, sv, ce, cv), err |-> FALSE]

parseProxyProtocolConfig(options, globalClient, globalServer) ==
    LET serverOpt == checkOption(options, "proxy-server")
        clientOpt == checkOption(options, "proxy-client")
        server == parseProxyProtocolOption(serverOpt.val)
        client == parseProxyProtocolOption(clientOpt.val)
        se == IF serverOpt.ok THEN server.enabled ELSE globalServer
        sv == IF serverOpt.ok THEN server.version ELSE IF globalServer THEN 1 ELSE 0
        ce == IF clientOpt.ok THEN client.enabled ELSE globalClient
        cv == IF clientOpt.ok THEN client.version ELSE IF globalClient THEN 1 ELSE 0
    IN  IF serverOpt.ok /\ server.err
        THEN [config |-> ProxyProtocolConfig(FALSE, 0, FALSE, 0), err |-> TRUE]
        ELSE IF clientOpt.ok /\ client.err
        THEN [config |-> ProxyProtocolConfig(se, sv, FALSE, 0), err |-> TRUE]
        ELSE [config |-> ProxyProtocolConfig(se, sv, ce, cv), err |-> FALSE]

\* The affinity map smain hands to the listener of the mapping: none without
\* the affinity option, else the map of the host, created with the TTL of
\* --affinity-ttl or, when that is 0, with the default.
AffinityOf(options, affinityTTL) ==
    IF checkOption(options, "affinity").ok
    THEN [ttl |-> IF affinityTTL = 0 THEN DefaultTTL ELSE affinityTTL]
    ELSE Nil

OptionValues == {"", "v1", "1", "v2", "2", "v3"}

Options ==
    {Option(n, FALSE, "") : n \in {"proxy-server", "proxy-client", "affinity"}}
        \cup {Option(n, TRUE, v) : n \in {"proxy-server", "proxy-client"},
                                   v \in OptionValues}

MappingArgs ==
    [options : UNION {[1..n -> Options] : n \in 0..2},
     clientProxyProtocol : BOOLEAN, serverProxyProtocol : BOOLEAN,
     affinityTTL : {0, 60}]

InitArgs ==
    /\ InitPools /\ InitConns /\ InitResolver /\ InitAffinity /\ InitPicks
    /\ smain = "parse" /\ InitPorts
    /\ args \in MappingArgs
    /\ setup = NotSetUp
    /\ InitSteps

\* smain reads the options of the mapping; with a bad PROXY option it exits
\* before it comes to the affinity map.
SetupMapping ==
    LET r == parseProxyProtocolConfig(args.options, args.clientProxyProtocol,
                                      args.serverProxyProtocol)
    IN
    /\ ~setup.done
    /\ setup' = [done |-> TRUE, config |-> r.config, err |-> r.err,
                 affinity |-> IF r.err THEN Nil
                              ELSE AffinityOf(args.options, args.affinityTTL)]
    /\ UNCHANGED <<poolVars, now, connVars, resolverVars, affinityVars, picks,
                   smain, portStr, parsed, args, stepVars>>

NextArgs == SetupMapping

SpecArgs == InitArgs /\ [][NextArgs]_vars

\* What the first option called name says, "absent" when there is none.
Said(name) ==
    LET hits == {i \in DOMAIN args.options : args.options[i].name = name} IN
    IF hits = {} THEN "absent"
    ELSE LET o == args.options[CHOOSE i \in hits : \A j \in hits : i <= j]
         IN  IF o.eq THEN o.val ELSE ""

\* What one side of the configuration has to be: <<enabled, version>>, or
\* "error".
SideWanted(name, global) ==
    LET v == Said(name) IN
    IF v = "absent" THEN (IF global THEN <<TRUE, 1>> ELSE <<FALSE, 0>>)
    ELSE IF v \in {"v1", "1"} THEN <<TRUE, 1>>
    ELSE IF v \in {"v2", "2"} THEN <<TRUE, 2>>
    ELSE IF v = "" THEN <<FALSE, 0>>
    ELSE "error"

\* C31: each side of the PROXY configuration is what its own option says when
\* the mapping has one (v1|1, v2|2, an error for any other non-empty value),
\* whatever the global flag; without the option it is (true, 1) under the
\* global flag and (false, 0) otherwise; and in every configuration returned a
\* side is enabled exactly when its version is 1 or 2.
ProxyConfigPerSide ==
    setup.done =>
        LET server == SideWanted("proxy-server", args.serverProxyProtocol)
            client == SideWanted("proxy-client", args.clientProxyProtocol)
            c == setup.config
        IN  /\ setup.err <=> (server = "error" \/ client = "error")
            /\ ~setup.err =>
                  /\ <<c.ServerEnabled, c.ServerVersion>> = server
                  /\ <<c.ClientEnabled, c.ClientVersion>> = client
            /\ c.ServerEnabled <=> c.ServerVersion \in {1, 2}
            /\ c.ClientEnabled <=> c.ClientVersion \in {1, 2}

\* C31 witness: both global flags are set and the mapping says
\* proxy-client=v2: the server side is (true, 1), the client side (true, 2).
OptionOverridesGlobal ==
    /\ setup.done /\ ~setup.err
    /\ args.options = <<Option("proxy-client", TRUE, "v2")>>
    /\ args.clientProxyProtocol /\ args.serverProxyProtocol
    /\ setup.config = ProxyProtocolConfig(TRUE, 1, TRUE, 2)

\* C32: with --affinity-ttl 0 no mapping gets an affinity map, and with any
\* TTL a mapping gets one only with the affinity option.
AffinityNeedsOptionAndTTL ==
    (setup.done /\ ~setup.err) =>
        (setup.affinity # Nil <=>
            (/\ \E i \in DOMAIN args.options : args.options[i].name = "affinity"
             /\ args.affinityTTL # 0))


\* ----------------------------- the round-robin listener with the affinity map
CursorLookups == {<<"10.0.0.1", "10.0.0.2">>, <<>>}

CursorAccept ==
    /\ \E c \in ConnIds, src \in Sources :
          /\ NextSlot(c)
          /\ Accept(c, Mapping("p1", "tcp", "round-robin", FALSE, TRUE, FALSE),
                    src, "")
    /\ UNCHANGED <<picks, mainVars>>

CursorForward ==
    /\ \E c \in ConnIds :
          \/ forwardSelect(c)
          \/ forwardConnect(c)
          \/ forwardDial(c)
          \/ forwardClose(c, 1)
    /\ UNCHANGED <<picks, mainVars>>

CursorOnDNSUpdate ==
    \E ips \in CursorLookups :
        /\ OnDNSUpdate("p1", ips)
        /\ UNCHANGED <<roundRobinIndex, connVars, resolverVars, affinityVars,
                       picks, mainVars>>

\* pool.SetWeights, called by smain before the listeners are opened.
CursorSetWeights ==
    /\ \A c \in ConnIds : conns[c].pc = "idle"
    /\ SetWeights("p1", [ip \in {"10.0.0.1"} |-> 3])
    /\ UNCHANGED <<backends, backendList, roundRobinIndex, gen, now,
                   connVars, resolverVars, affinityVars, picks, mainVars>>

NextCursor ==
    \/ CursorAccept
    \/ CursorForward
    \/ CursorOnDNSUpdate
    \/ CursorSetWeights

SpecCursor == Init /\ [][NextCursor]_vars

\* Connection c makes its round-robin Select in this step.
RoundRobinSelects(c) ==
    /\ conns[c].pc = "select"
    /\ conns[c].m.algorithm = "round-robin"
    /\ conns'[c] # conns[c]

\* C33: a round-robin Select advances the cursor of the pool by one when it
\* runs the algorithm on a non-empty snapshot; a call answered from the
\* affinity map, like a call on the empty pool, leaves the cursor where it is.
CursorAdvancesWithAlgorithm ==
    [][\A c \in ConnIds :
          RoundRobinSelects(c) =>
              LET p == conns[c].m.pool IN
              IF (SelectsWithAffinity(c) /\ BoundInPool(c))
                  \/ GetBackends(p) = <<>>
              THEN roundRobinIndex' = roundRobinIndex
              ELSE roundRobinIndex' =
                      [roundRobinIndex EXCEPT ![p] = roundRobinIndex[p] + 1]
      ]_vars

\* C33 as stated: every round-robin Select on a non-empty pool advances the
\* cursor by one, the calls answered from the affinity map included.
CursorAdvancesOnEveryCall ==
    [][\A c \in ConnIds :
          (RoundRobinSelects(c) /\ GetBackends(conns[c].m.pool) # <<>>) =>
              roundRobinIndex'[conns[c].m.pool] =
                  roundRobinIndex[conns[c].m.pool] + 1
      ]_vars

\* C33 witness: three clients have been given a backend, the first two from
\* one source and the third from another, and the cursor stands at 2: the
\* second client was answered from the affinity map.
TwoAdvancesForThreeClients ==
    /\ \A c \in ConnIds : conns[c].pc \in {"connect", "dial", "copy"}
    /\ conns["c1"].src = conns["c2"].src
    /\ conns["c3"].src # conns["c1"].src
    /\ conns["c2"].backend = conns["c1"].backend
    /\ conns["c3"].backend # conns["c1"].backend
    /\ roundRobinIndex["p1"] = 2


\* -------------------------- the two copy goroutines of forward, step by step
\* The goroutines start with every error variable of forward nil: net.Dial
\* and the header write have succeeded.
StartCopying == [NotCopying EXCEPT !.pc = [t \in CopyTasks |-> "copy"]]

\* The errors io.Copy of a task can return: none (end of stream) or a reset
\* while both endpoints are open, "closed" once the other goroutine has
\* closed them.
CopyErrors == IF copying.ends = {} THEN {NoErr, "reset"} ELSE {"closed"}

\* io.Copy of task t returns: `received, err1 = io.Copy(remote, local)` in the
\* first goroutine, `sent, err = io.Copy(local, remote)` in the second.
copyReturn(t) ==
    /\ copying.pc[t] = "copy"
    /\ \E e \in CopyErrors :
          copying' = [copying EXCEPT
              !.pc[t] = "check",
              !.err1 = IF t = "up" THEN e ELSE @,
              !.err = IF t = "down" THEN e ELSE @,
              !.first = IF @ = <<>> THEN <<[task |-> t, err |-> e]>> ELSE @]
    /\ UNCHANGED <<poolVars, now, connVars, resolverVars, affinityVars, picks,
                   mainButCopying>>

\* `if err1 != nil && closed.Load() == false { slog.Error(..., "err", err) }`,
\* with err2 in the second goroutine. The err that is logged is read while the
\* other goroutine may write it: any of its values, or a torn one.
copyCheck(t) ==
    LET own == IF t = "up" THEN copying.err1 ELSE copying.err2 IN
    /\ copying.pc[t] = "check"
    /\ \E v \in {copying.err, "torn"} :
          copying' = [copying EXCEPT
              !.pc[t] = "store",
              !.reports = IF own # NoErr /\ ~copying.closed
                          THEN Append(@, [task |-> t, err |-> v]) ELSE @]
    /\ UNCHANGED <<poolVars, now, connVars, resolverVars, affinityVars, picks,
                   mainButCopying>>

\* closed.Store(true)
copyStore(t) ==
    /\ copying.pc[t] = "store"
    /\ copying' = [copying EXCEPT !.pc[t] = "close", !.closed = TRUE]
    /\ UNCHANGED <<poolVars, now, connVars, resolverVars, affinityVars, picks,
                   mainButCopying>>

\* The deferred calls: both endpoints are closed, then wg.Done.
copyClose(t) ==
    /\ copying.pc[t] = "close"
    /\ copying' = [copying EXCEPT !.pc[t] = "done",
                                  !.ends = {"local", "remote"}]
    /\ UNCHANGED <<poolVars, now, connVars, resolverVars, affinityVars, picks,
                   mainButCopying>>

InitCopying ==
    /\ InitPools /\ InitConns /\ InitResolver /\ InitAffinity /\ InitPicks
    /\ smain = "listen" /\ InitPorts /\ InitSetup
    /\ copying = StartCopying
    /\ selecting = Nil
    /\ locking = Nil

NextCopying ==
    \E t \in CopyTasks :
        \/ copyReturn(t)
        \/ copyCheck(t)
        \/ copyStore(t)
        \/ copyClose(t)

SpecCopying == InitCopying /\ [][NextCopying]_vars

\* C34: at most one 'Connection error' is reported for the connection, and
\* once the copy task that returned first with an error has passed its check,
\* that error has been reported once.
FirstCopyErrorReportedOnce ==
    /\ Len(copying.reports) <= 1
    /\ (/\ copying.first # <<>>
        /\ copying.first[1].err # NoErr
        /\ copying.pc[copying.first[1].task] \in {"store", "close", "done"})
           => Len(copying.reports) = 1


\* The addresses pool p has a backend for.
Members(bk, p) == {ip \in IPs : bk[p][ip] # Nil}

\* C35: an OnDNSUpdate whose IP set is the membership the pool already has
\* keeps the map, the snapshot list with its order and the round-robin cursor,
\* and changes nothing of any backend but the LastSeen of the members, which
\* becomes the time of the update.
SameMembershipOnlyRefreshes ==
    [][(now' = now + 1 /\ Members(backends', "p1") = Members(backends, "p1")) =>
          /\ backends' = backends
          /\ backendList' = backendList
          /\ roundRobinIndex' = roundRobinIndex
          /\ DOMAIN heap' = DOMAIN heap
          /\ \A b \in DOMAIN heap :
                heap'[b] = IF backends["p1"][b[2]] = b
                           THEN [heap[b] EXCEPT !.LastSeen = now']
                           ELSE heap[b]
      ]_vars

\* C35 witness: the second update has found the two backends of the first
\* (neither has been created again) and refreshed them; the client that was
\* given a backend between the two updates is connected to it, counted, and
\* the cursor is where its selection left it.
RefreshedUnderConnection ==
    /\ now = 2
    /\ Len(backendList["p1"]) = 2
    /\ \A ip \in Members(backends, "p1") :
          gen["p1"][ip] = 1 /\ heap[backends["p1"][ip]].LastSeen = 2
    /\ conns["c1"].pc = "copy" /\ conns["c2"].pc = "idle"
    /\ conns["c1"].src \in DOMAIN entries
    /\ entries[conns["c1"].src].lastUsed = 1
    /\ heap[conns["c1"].backend].ActiveConns = 1
    /\ heap[conns["c1"].backend].Weight = 3
    /\ roundRobinIndex["p1"] = 1


\* ------------------ Select of the counting selectors, one counter at a time
\* Both selectors read ActiveConns of the backends of their snapshot twice,
\* with one atomic Load per backend and pass; OnConnect and OnDisconnect of
\* the connections in flight run in between.

\* GetBackends and the length test; minConns starts at the largest int64,
\* written <<>> here, which every count is below.
selectBegin(alg, p) ==
    /\ selecting.pc = "idle"
    /\ selecting' =
          IF Len(GetBackends(p)) = 0
          THEN [NotSelecting EXCEPT !.pc = "ErrNoBackends", !.algorithm = alg]
          ELSE [NotSelecting EXCEPT !.pc = "pass1", !.algorithm = alg,
                                    !.backends = GetBackends(p), !.i = 1]
    /\ UNCHANGED <<poolVars, now, connVars, resolverVars, affinityVars, picks,
                   mainButSelecting>>

\* One turn of the first loop: the minimum of least-connection, the maximum
\* of weighted-random.
selectPass1 ==
    LET k == selecting
        conns1 == heap[k.backends[k.i]].ActiveConns
        last == k.i = Len(k.backends)
    IN
    /\ k.pc = "pass1"
    /\ selecting' = [k EXCEPT
          !.minConns = IF k.algorithm = "least-connection"
                          /\ (@ = <<>> \/ conns1 < @[1])
                       THEN <<conns1>> ELSE @,
          !.maxConns = IF k.algorithm = "weighted-random" /\ conns1 > @
                       THEN conns1 ELSE @,
          !.i = IF last THEN 1 ELSE @ + 1,
          !.pc = IF last THEN "pass2" ELSE @]
    /\ UNCHANGED <<poolVars, now, connVars, resolverVars, affinityVars, picks,
                   mainButSelecting>>

\* One turn of the second loop: the candidates of least-connection, the
\* weights of weighted-random.
selectPass2 ==
    LET k == selecting
        b == k.backends[k.i]
        activeConns == heap[b].ActiveConns
        implicitWeight == k.maxConns - activeConns + 1
        w == implicitWeight * heap[b].Weight
        last == k.i = Len(k.backends)
    IN
    /\ k.pc = "pass2"
    /\ selecting' = [k EXCEPT
          !.candidates = IF k.algorithm = "least-connection"
                            /\ <<activeConns>> = k.minConns
                         THEN Append(@, b) ELSE @,
          !.weights = IF k.algorithm = "weighted-random"
                      THEN Append(@, w) ELSE @,
          !.totalWeight = IF k.algorithm = "weighted-random" THEN @ + w ELSE @,
          !.i = IF last THEN 0 ELSE @ + 1,
          !.pc = IF last THEN "draw" ELSE @]
    /\ UNCHANGED <<poolVars, now, connVars, resolverVars, affinityVars, picks,
                   mainButSelecting>>

\* The draw. rand.IntN(n) panics when n <= 0.
selectDraw ==
    LET k == selecting IN
    /\ k.pc = "draw"
    /\ IF k.algorithm = "least-connection"
       THEN IF Len(k.candidates) = 0
            THEN selecting' = [k EXCEPT !.pc = "panic"]
            ELSE \E n \in 1..Len(k.candidates) :
                    selecting' = [k EXCEPT !.pc = "selected",
                                           !.selected = k.candidates[n]]
       ELSE IF k.totalWeight = 0
            THEN \E n \in 1..Len(k.backends) :
                    selecting' = [k EXCEPT !.pc = "selected",
                                           !.selected = k.backends[n]]
            ELSE IF k.totalWeight < 0
            THEN selecting' = [k EXCEPT !.pc = "panic"]
            ELSE \E r \in 0..(k.totalWeight - 1) :
                    selecting' = [k EXCEPT
                        !.pc = "selected",
                        !.selected = k.backends[Scan(k.weights, r)]]
    /\ UNCHANGED <<poolVars, now, connVars, resolverVars, affinityVars, picks,
                   mainButSelecting>>

\* The connections whose OnConnect and OnDisconnect run beside the call.
CountingSlots == {"c1", "c2"}

CountingAccept ==
    /\ \E c \in CountingSlots :
          /\ NextSlot(c)
          /\ Accept(c, Mapping("p1", "tcp", "round-robin", FALSE, FALSE, FALSE),
                    "192.0.2.1", "")
    /\ UNCHANGED <<picks, mainVars>>

CountingForward ==
    /\ \E c \in CountingSlots :
          \/ forwardSelect(c)
          \/ forwardConnect(c)
          \/ forwardDial(c)
          \/ forwardClose(c, 1)
    /\ UNCHANGED <<picks, mainVars>>

\* What the lookups of the host return: one backend, or two.
CountingLookups == {<<"10.0.0.1">>, <<"10.0.0.1", "10.0.0.2">>}

\* The probe rounds before the call: the membership stays as it is while
\* Select runs.
CountingOnDNSUpdate ==
    /\ selecting.pc = "idle"
    /\ \E ips \in CountingLookups : OnDNSUpdate("p1", ips)
    /\ UNCHANGED <<roundRobinIndex, connVars, resolverVars, affinityVars,
                   picks, mainVars>>

CountingSelect ==
    \/ \E alg \in {"least-connection", "weighted-random"} :
          selectBegin(alg, "p1")
    \/ selectPass1
    \/ selectPass2
    \/ selectDraw

NextCounting ==
    \/ CountingAccept
    \/ CountingForward
    \/ CountingOnDNSUpdate
    \/ CountingSelect

\* No call of Select is under way.
InitCounting ==
    /\ InitPools /\ InitConns /\ InitResolver /\ InitAffinity /\ InitPicks
    /\ smain = "listen" /\ InitPorts /\ InitSetup
    /\ copying = Nil
    /\ selecting = NotSelecting
    /\ locking = Nil

SpecCounting == InitCounting /\ [][NextCounting]_vars

\* The call has ended by returning a backend of its snapshot.
ReturnsMember ==
    /\ selecting.pc = "selected"
    /\ selecting.selected \in Range(selecting.backends)

\* C36: a least-connection Select on a non-empty snapshot never comes to the
\* draw with an empty candidate list, and ends by returning a backend of the
\* snapshot.
LeastConnectionAlwaysSelects ==
    (selecting.algorithm = "least-connection" /\ selecting.backends # <<>>) =>
        /\ selecting.pc = "draw" => selecting.candidates # <<>>
        /\ selecting.pc \notin {"pass1", "pass2", "draw"} => ReturnsMember

\* C37: in an implicit weighted-random Select on a non-empty snapshot every
\* effective weight is >= 0, the weighted draw is made over a total > 0 only,
\* and the call ends by returning a backend of the snapshot.
ImplicitWeightsAlwaysSelect ==
    (selecting.algorithm = "weighted-random" /\ selecting.backends # <<>>) =>
        /\ \A j \in DOMAIN selecting.weights : selecting.weights[j] >= 0
        /\ selecting.totalWeight >= 0
        /\ selecting.pc \notin {"pass1", "pass2", "draw"} => ReturnsMember


\* The subscribers whose Subscribe has returned.
Subscribed ==
    {rSubscribers[i] : i \in DOMAIN rSubscribers} \
        (IF subscribing.pc = "idle" THEN {} ELSE {subscribing.sub})

\* C38: whenever the probe loop is between two rounds (asleep, or in the
\* lookup of the next round) and the stored list is not empty, the list last
\* handed to every subscriber whose Subscribe has returned is the stored list.
SubscribersHoldStoredList ==
    (probe.pc \in {"lookup", "sleep"} /\ rIps # <<>>) =>
        \A sub \in Subscribed : delivered[sub] = <<rIps>>

\* C38 witness: the round that has just ended notified p1 alone; p2 has
\* subscribed after the subscribers were copied, and holds the stored list.
LateSubscriberHoldsList ==
    /\ probe.pc = "sleep"
    /\ probe.subscribers = <<"p1">>
    /\ rSubscribers = <<"p1", "p2">>
    /\ subscribing.pc = "idle"
    /\ rIps # <<>>
    /\ delivered["p2"] = <<rIps>>
    /\ Members(backends, "p2") = Range(rIps)


\* --------------------------- Select with an affinity map, one call at a time
\* Get and Set each take the lock of the map for themselves; between the two
\* calls of one Select the other connections run.

\* The affinity block of Select: affinity.Get and pool.GetBackend. On a hit
\* Select returns the backend, on a miss it goes on to the algorithm.
selectGet(c) ==
    LET k == conns[c]
        g == IF k.m.affinity /\ k.src # "" THEN Get(entries, k.src, now)
             ELSE Miss
        backend == IF g.found THEN GetBackend(k.m.pool, g.ip) ELSE Nil
    IN
    /\ k.pc = "select" /\ k.m.mode = "tcp"
    /\ conns' = [conns EXCEPT
          ![c].pc = IF backend # Nil THEN "connect" ELSE "algorithm",
          ![c].backend = backend]
    /\ UNCHANGED <<poolVars, now, lastExit, ops, opened, resolverVars,
                   affinityVars>>

\* The rest of Select: GetBackends, the algorithm, and affinity.Set with the
\* backend chosen; with ErrNoBackends forward returns.
selectAlgorithm(c) ==
    LET k == conns[c]
        p == k.m.pool
        l == GetBackends(p)
        useAff == k.m.affinity /\ k.src # ""
    IN
    /\ k.pc = "algorithm" /\ k.m.mode = "tcp"
    /\ IF Len(l) = 0
       THEN /\ conns' = [conns EXCEPT ![c] = DoneConn]
            /\ lastExit' = Exit("tcp", "nobackends", 0, 0)
            /\ opened' = opened - 1
            /\ UNCHANGED <<roundRobinIndex, entries, lastOp, hist>>
       ELSE /\ \E i \in Algorithm(k.m, p, l) :
                 /\ conns' = [conns EXCEPT ![c].pc = "connect",
                                           ![c].backend = l[i]]
                 /\ entries' = IF useAff
                               THEN Set(entries, k.src, heap[l[i]].IP, now)
                               ELSE entries
                 /\ lastOp' = IF useAff THEN NoOp ELSE lastOp
                 /\ hist' = IF useAff
                            THEN HistSet(hist, k.src, heap[l[i]].IP, now)
                            ELSE hist
            /\ roundRobinIndex' =
                  IF k.m.algorithm = "round-robin"
                  THEN [roundRobinIndex EXCEPT ![p] = @ + 1]
                  ELSE roundRobinIndex
            /\ UNCHANGED <<opened, lastExit>>
    /\ UNCHANGED <<backends, backendList, heap, gen, now, ops, resolverVars,
                   nextSweep>>

\* Two clients of one source on the random listener with the affinity option;
\* they come once the probe has found the backends.
RaceSlots == {"c1", "c2"}

RaceAccept ==
    /\ GetBackends("p1") # <<>>
    /\ \E c \in RaceSlots :
          /\ NextSlot(c)
          /\ Accept(c, Mapping("p1", "tcp", "random", FALSE, TRUE, FALSE),
                    "192.0.2.1", "")
    /\ UNCHANGED <<picks, mainVars>>

RaceSelect ==
    /\ \E c \in RaceSlots : selectGet(c) \/ selectAlgorithm(c)
    /\ UNCHANGED <<picks, mainVars>>

RaceForward ==
    /\ \E c \in RaceSlots :
          \/ forwardConnect(c)
          \/ forwardDial(c)
          \/ forwardClose(c, 1)
    /\ UNCHANGED <<picks, mainVars>>

\* The membership is fixed: every lookup returns the same two addresses.
RaceOnDNSUpdate ==
    /\ OnDNSUpdate("p1", <<"10.0.0.1", "10.0.0.2">>)
    /\ UNCHANGED <<roundRobinIndex, connVars, resolverVars, affinityVars,
                   picks, mainVars>>

NextRace ==
    \/ RaceAccept
    \/ RaceSelect
    \/ RaceForward
    \/ RaceOnDNSUpdate

SpecRace == Init /\ [][NextRace]_vars

\* C39: with the affinity map, a fixed membership and no binding expiring,
\* the connections of one source that have been given a backend have all
\* been given the same one, whatever the interleaving of their selections.
OneSourceOneBackend ==
    \A c, d \in ConnIds :
        (/\ conns[c].pc \in {"connect", "dial", "copy"}
         /\ conns[d].pc \in {"connect", "dial", "copy"}
         /\ conns[c].m.affinity /\ conns[d].m.affinity
         /\ conns[c].src # "" /\ conns[c].src = conns[d].src) =>
            conns[c].backend = conns[d].backend


\* ------------------------------------- BackendPool.resolve and the pool lock
\* sync.RWMutex: RLock waits while a writer holds the lock or has called Lock
\* and waits for it; Lock waits until every read lock is released.
CanRLock == locking.writer = "idle"

\* p.mu.RLock() at the top of resolve.
resolveRLock ==
    /\ locking.pc = "idle"
    /\ CanRLock
    /\ locking' = [locking EXCEPT !.pc = "locked", !.readers = @ + 1,
                                  !.backends = <<>>, !.ip = "", !.err = FALSE]
    /\ UNCHANGED <<poolVars, now, connVars, resolverVars, affinityVars, picks,
                   mainButLocking>>

\* len(p.backendList) == 0: the error is returned through the deferred
\* RUnlock; else selector.Select(p, "", nil) is called.
resolveCheck(p) ==
    /\ locking.pc = "locked"
    /\ locking' = IF Len(backendList[p]) = 0
                  THEN [locking EXCEPT !.pc = "returned", !.readers = @ - 1,
                                       !.err = TRUE]
                  ELSE [locking EXCEPT !.pc = "Select"]
    /\ UNCHANGED <<poolVars, now, connVars, resolverVars, affinityVars, picks,
                   mainButLocking>>

\* RandomSelector.Select calls pool.GetBackends: p.mu.RLock() once more, with
\* the read lock of resolve still held.
resolveGetBackends(p) ==
    /\ locking.pc = "Select"
    /\ CanRLock
    /\ locking' = [locking EXCEPT !.pc = "GetBackends", !.readers = @ + 1,
                                  !.backends = backendList[p]]
    /\ UNCHANGED <<poolVars, now, connVars, resolverVars, affinityVars, picks,
                   mainButLocking>>

\* GetBackends returns (RUnlock), Select draws from the copy, and resolve
\* returns the IP through its own deferred RUnlock.
resolveReturn ==
    /\ locking.pc = "GetBackends"
    /\ \E n \in 1..Len(locking.backends) :
          locking' = [locking EXCEPT !.pc = "returned", !.readers = @ - 2,
                                     !.ip = heap[locking.backends[n]].IP]
    /\ UNCHANGED <<poolVars, now, connVars, resolverVars, affinityVars, picks,
                   mainButLocking>>

\* The caller calls resolve again.
resolveAgain ==
    /\ locking.pc = "returned"
    /\ locking' = [locking EXCEPT !.pc = "idle"]
    /\ UNCHANGED <<poolVars, now, connVars, resolverVars, affinityVars, picks,
                   mainButLocking>>

\* p.mu.Lock() of OnDNSUpdate or SetWeights is called: from now on no new
\* read lock is granted.
writerLock(op) ==
    /\ locking.writer = "idle"
    /\ locking' = [locking EXCEPT !.writer = "waiting", !.op = op]
    /\ UNCHANGED <<poolVars, now, connVars, resolverVars, affinityVars, picks,
                   mainButLocking>>

\* Lock returns once no read lock is held.
writerLocked ==
    /\ locking.writer = "waiting"
    /\ locking.readers = 0
    /\ locking' = [locking EXCEPT !.writer = "held"]
    /\ UNCHANGED <<poolVars, now, connVars, resolverVars, affinityVars, picks,
                   mainButLocking>>

LockingLookups == {<<"10.0.0.1", "10.0.0.2">>, <<"10.0.0.2">>, <<>>}

\* The body of OnDNSUpdate under the lock, and the deferred Unlock.
writerOnDNSUpdate(p) ==
    /\ locking.writer = "held" /\ locking.op = "OnDNSUpdate"
    /\ \E ips \in LockingLookups : OnDNSUpdate(p, ips)
    /\ locking' = [locking EXCEPT !.writer = "idle", !.op = ""]
    /\ UNCHANGED <<roundRobinIndex, connVars, resolverVars, affinityVars,
                   picks, mainButLocking>>

\* The body of SetWeights under the lock, and the deferred Unlock.
writerSetWeights(p) ==
    /\ locking.writer = "held" /\ locking.op = "SetWeights"
    /\ \E w \in {2, 3} : SetWeights(p, [ip \in {"10.0.0.2"} |-> w])
    /\ locking' = [locking EXCEPT !.writer = "idle", !.op = ""]
    /\ UNCHANGED <<backends, backendList, roundRobinIndex, gen, now, connVars,
                   resolverVars, affinityVars, picks, mainButLocking>>

LockingResolve ==
    \/ resolveRLock
    \/ resolveCheck("p1")
    \/ resolveGetBackends("p1")
    \/ resolveReturn
    \/ resolveAgain

LockingWriter ==
    \/ \E op \in {"OnDNSUpdate", "SetWeights"} : writerLock(op)
    \/ writerLocked
    \/ writerOnDNSUpdate("p1")
    \/ writerSetWeights("p1")

NextLocking == LockingResolve \/ LockingWriter

\* The lock of the pool is free and nobody has called resolve.
InitLocking ==
    /\ InitPools /\ InitConns /\ InitResolver /\ InitAffinity /\ InitPicks
    /\ smain = "listen" /\ InitPorts /\ InitSetup
    /\ copying = Nil
    /\ selecting = Nil
    /\ locking = NotLocking

SpecLocking == InitLocking /\ [][NextLocking]_vars

\* C40: resolve never waits for its second read lock behind a writer that
\* waits for the first: in that state neither goroutine can ever take a step,
\* so a resolve that always completes never comes to it.
ResolveNeverBehindWriter ==
    ~(/\ locking.pc = "Select"
      /\ locking.writer = "waiting"
      /\ locking.readers = 1)

====
